---- MODULE Spec2Model ----
(***************************************************************************)
(* A model of warehub: the record store (src/warehub/database.py), its     *)
(* predicate layer, the ingestion orchestrator (src/warehub/__init__.py,   *)
(* handle_arguments and make_package) and the metadata validator           *)
(* (src/warehub/metadata.py).                                              *)
(*                                                                         *)
(* Python values are tagged so that values of different types can be told  *)
(* apart: a str is [s |-> <<characters>>], an int is [i |-> n].            *)
(***************************************************************************)
EXTENDS Integers, Sequences, FiniteSets, TLC

VARIABLES
    loaded,    \* Database._data is not None
    data,      \* Database._data: table name -> its dict, as <<[key, ref]>> in dict order
    heap,      \* the field-maps (dict objects) allocated so far, by reference
    insts,     \* the record instances the caller holds: [table, id, ref, via]
    storage,   \* the names of the files copied into files/
    last,      \* what the last operation was given and what it returned
    calls,     \* number of make_package calls run so far
    db_file,   \* Database._file on disk: its contents, or that it does not exist
    stamp,     \* Database._data['last_commit']
    now,       \* the time datetime.now() reads
    raised,    \* an exception has left the loop of handle_arguments
    site       \* the generated files: [tree, project, version, page]

vars == <<loaded, data, heap, insts, storage, last, calls, db_file, stamp, now, raised,
          site>>

----------------------------------------------------------------------------
(* Python values *)

PyStr(v) == [s |-> v]
PyInt(n) == [i |-> n]
PyBool(b) == [b |-> b]
IsStr(x) == DOMAIN x = {"s"}

\* Code points of the characters the model uses (str ordering is by code point).
CodePoint(c) ==
    CASE c = "+" -> 43
      [] c = "." -> 46
      [] c = "0" -> 48
      [] c = "1" -> 49
      [] c = "2" -> 50
      [] c = "9" -> 57
      [] c = "a" -> 97
      [] c = "b" -> 98
      [] c = "f" -> 102
      [] c = "g" -> 103

\* str < str: lexicographic by code point, a proper prefix is smaller.
RECURSIVE SeqLess(_, _)
SeqLess(u, v) ==
    IF v = <<>> THEN FALSE
    ELSE IF u = <<>> THEN TRUE
    ELSE IF CodePoint(Head(u)) # CodePoint(Head(v))
         THEN CodePoint(Head(u)) < CodePoint(Head(v))
         ELSE SeqLess(Tail(u), Tail(v))

\* Python's x < y on two values of the same type.
PyLess(x, y) ==
    IF IsStr(x) THEN SeqLess(x.s, y.s) ELSE x.i < y.i

\* Python's x == y: values of different types are unequal.
PyEq(x, y) == x = y

\* Ordering two values of different types raises TypeError.
PyOrderRaises(x, y) == IsStr(x) # IsStr(y)

----------------------------------------------------------------------------
(* re.compile and Pattern.search, for patterns made of literal characters, *)
(* "." and the quantifier "+".  Every other character of the model's       *)
(* alphabets is a literal for Python's re.                                 *)

IsQuantifier(c) == c = "+"

\* re.compile(other) succeeds: other is a str, no quantifier stands first
\* ("nothing to repeat") and none follows another one ("multiple repeat").
Compiles(other) ==
    /\ IsStr(other)
    /\ \A k \in 1..Len(other.s) :
          IsQuantifier(other.s[k]) =>
              /\ k > 1
              /\ ~IsQuantifier(other.s[k - 1])

\* The compiled pattern: one token per atom, with its quantifier.
RECURSIVE Tokens(_)
Tokens(p) ==
    IF p = <<>> THEN <<>>
    ELSE IF Len(p) >= 2 /\ IsQuantifier(p[2])
         THEN <<[ch |-> p[1], plus |-> TRUE]>> \o Tokens(SubSeq(p, 3, Len(p)))
         ELSE <<[ch |-> p[1], plus |-> FALSE]>> \o Tokens(Tail(p))

\* One atom against one character: "." matches any character, a literal itself.
CharMatch(ch, c) == ch = "." \/ ch = c

\* The tokens from index k on match some stretch of s that starts at j.
RECURSIVE MatchFrom(_, _, _, _)
MatchFrom(toks, k, s, j) ==
    IF k > Len(toks) THEN TRUE
    ELSE IF ~toks[k].plus
         THEN /\ j <= Len(s)
              /\ CharMatch(toks[k].ch, s[j])
              /\ MatchFrom(toks, k + 1, s, j + 1)
         ELSE \E n \in 1..(Len(s) - j + 1) :
                  /\ \A m \in j..(j + n - 1) : CharMatch(toks[k].ch, s[m])
                  /\ MatchFrom(toks, k + 1, s, j + n)

\* The one start position Pattern.match tries.
SearchAtStart(s) == {1}

\* The start positions Pattern.search tries, in order.
SearchStarts(s) == 1..(Len(s) + 1)

\* pattern.search(s) is not None: a match starts at some position of s.
Search(p, s) == \E j \in SearchStarts(s) : MatchFrom(Tokens(p), 1, s, j)

----------------------------------------------------------------------------
(* TableAttr: the field predicates *)

\* TableAttr.__eq__: regex search when other compiles, else exact equality.
TableAttrEq(value, other) ==
    IF Compiles(other) THEN Search(other.s, value.s) ELSE PyEq(value, other)

\* TableAttr.__ne__: no regex match when other compiles, else inequality.
TableAttrNe(value, other) ==
    IF Compiles(other) THEN ~Search(other.s, value.s) ELSE ~PyEq(value, other)

TableAttrLt(value, other) == PyLess(value, other)
TableAttrLe(value, other) == PyLess(value, other) \/ PyEq(value, other)
TableAttrGt(value, other) == PyLess(other, value)
TableAttrGe(value, other) == PyLess(other, value) \/ PyEq(value, other)

\* pattern.search(value) raises TypeError on a value that is not a str.
RegexRaises(value, other) == Compiles(other) /\ ~IsStr(value)

\* The comparison built by `field <op> other` raises on this value.
AttrRaises(op, value, other) ==
    IF op \in {"eq", "ne"} THEN RegexRaises(value, other)
    ELSE PyOrderRaises(value, other)

\* The comparison built by `field <op> other`, on a value it does not raise on.
AttrHolds(op, value, other) ==
    CASE op = "eq" -> TableAttrEq(value, other)
      [] op = "ne" -> TableAttrNe(value, other)
      [] op = "lt" -> TableAttrLt(value, other)
      [] op = "le" -> TableAttrLe(value, other)
      [] op = "gt" -> TableAttrGt(value, other)
      [] op = "ge" -> TableAttrGe(value, other)

----------------------------------------------------------------------------
(* Comparison: predicates over a record's field-map *)

\* `where` is None or the literal True: every record is selected (pre_check).
WAll == [op |-> "all"]
\* TableAttr.<op>(other) for the field `name`.
WAttr(op, name, other) == [op |-> op, name |-> name, other |-> other]
\* Comparison.__and__ and Comparison.__or__.
WAnd(l, r) == [op |-> "and", l |-> l, r |-> r]
WOr(l, r) == [op |-> "or", l |-> l, r |-> r]

\* Comparison.compare(fields) raises (Python's and/or evaluate left to right
\* and skip the right operand when the left one decides).
RECURSIVE Compare(_, _)
RECURSIVE CompareRaises(_, _)
CompareRaises(w, fields) ==
    CASE w.op = "all" -> FALSE
      [] w.op = "and" -> \/ CompareRaises(w.l, fields)
                         \/ Compare(w.l, fields) /\ CompareRaises(w.r, fields)
      [] w.op = "or"  -> \/ CompareRaises(w.l, fields)
                         \/ ~Compare(w.l, fields) /\ CompareRaises(w.r, fields)
      [] OTHER        -> AttrRaises(w.op, fields[w.name], w.other)

\* Comparison.compare(fields), where it does not raise.
Compare(w, fields) ==
    CASE w.op = "all" -> TRUE
      [] w.op = "and" -> Compare(w.l, fields) /\ Compare(w.r, fields)
      [] w.op = "or"  -> Compare(w.l, fields) \/ Compare(w.r, fields)
      [] OTHER        -> AttrHolds(w.op, fields[w.name], w.other)

----------------------------------------------------------------------------
(* The document: tables are dicts from decimal-string keys to field-maps *)

Digits == <<"0", "1", "2", "3", "4", "5", "6", "7", "8", "9">>

\* str(id) for id >= 0.
RECURSIVE Decimal(_)
Decimal(n) ==
    IF n < 10 THEN <<Digits[n + 1]>>
    ELSE Decimal(n \div 10) \o <<Digits[(n % 10) + 1]>>

DigitValue(c) == CHOOSE d \in 0..9 : Digits[d + 1] = c

\* int(key) for a key of decimal digits.
RECURSIVE ParseInt(_)
ParseInt(key) ==
    IF Len(key) = 1 THEN DigitValue(key[1])
    ELSE 10 * ParseInt(SubSeq(key, 1, Len(key) - 1)) + DigitValue(key[Len(key)])

\* The tables of the document rollback makes when the backing file does not
\* exist: none, {'last_commit': ...} holding the stamp alone.
EmptyDoc == [t \in {} |-> <<>>]

\* The keys of a dict.
Keys(tbl) == {tbl[k].key : k \in DOMAIN tbl}

\* dict[key] = ref: an existing key keeps its place, a new key goes last.
DictSet(tbl, key, ref) ==
    IF key \in Keys(tbl)
    THEN [k \in DOMAIN tbl |-> IF tbl[k].key = key THEN [key |-> key, ref |-> ref]
                                                   ELSE tbl[k]]
    ELSE Append(tbl, [key |-> key, ref |-> ref])

\* del dict[key] for every key of `remove`.
DictDel(tbl, remove) ==
    LET Keep(e) == e.key \notin remove IN SelectSeq(tbl, Keep)

\* The table `name` of a document (the empty dict when the table is missing).
TableOf(doc, name) == IF name \in DOMAIN doc THEN doc[name] ELSE <<>>

\* doc[name] = tbl for a table the document has, nothing for one it lacks.
WithTableIfPresent(doc, name, tbl) ==
    [t \in DOMAIN doc |-> IF t = name THEN tbl ELSE doc[t]]

\* doc[name] = tbl.
WithTable(doc, name, tbl) ==
    [t \in DOMAIN doc \cup {name} |-> IF t = name THEN tbl ELSE doc[t]]

\* The items of a table that `where` selects, in dict order (get and pop).
Selected(tbl, where, hp) ==
    LET Hit(e) == Compare(where, hp[e.ref]) IN SelectSeq(tbl, Hit)

\* The scan of get/pop raises: the comparison raises on an item it reaches.
ScanRaises(tbl, where, hp) ==
    \E k \in DOMAIN tbl : CompareRaises(where, hp[tbl[k].ref])

----------------------------------------------------------------------------
(* Database.put *)

\* The id put gives a record whose id is unset: count up from 0 while
\* str(id) is a key of the table.
RECURSIVE NextFreeId(_, _)
NextFreeId(tbl, id) ==
    IF Decimal(id) \in Keys(tbl) THEN NextFreeId(tbl, id + 1) ELSE id

\* The number of records the table holds.
PutIdByLen(tbl) == Len(tbl)

\* The id put gives a record whose id is unset.
PutId(tbl) == NextFreeId(tbl, 0)

\* The loop of put over `entries` (indexes of instances in `ins`): the table
\* and the instances after it.
RECURSIVE PutEntries(_, _, _)
PutEntries(tbl, ins, entries) ==
    IF entries = <<>> THEN [tbl |-> tbl, ins |-> ins]
    ELSE LET k  == Head(entries)
             id == IF ins[k].id < 0 THEN PutId(tbl) ELSE ins[k].id
         IN  PutEntries(DictSet(tbl, Decimal(id), ins[k].ref),
                        [ins EXCEPT ![k].id = id],
                        Tail(entries))

----------------------------------------------------------------------------
(* Database.get and Database.pop *)

\* An instance over the stored field-map whose id is left unset.
HydrateNoId(table, e) == [table |-> table, id |-> -1, ref |-> e.ref, via |-> "get"]

\* The instance get builds for one selected item: _id = int(key) and
\* __data__ = the stored field-map itself.
Hydrate(table, e) ==
    [table |-> table, id |-> ParseInt(e.key), ref |-> e.ref, via |-> "get"]

\* The list get returns.
GetResults(table, tbl, where, hp) ==
    LET sel == Selected(tbl, where, hp)
    IN  [k \in DOMAIN sel |-> Hydrate(table, sel[k])]

\* The records a list of instances shows: each one's id and field values.
Records(list, hp) ==
    [k \in DOMAIN list |-> [id |-> list[k].id, fields |-> hp[list[k].ref]]]

\* A list of instances that keep the ids their records were stored under.
PopResultsWithId(table, tbl, where, hp) ==
    LET sel == Selected(tbl, where, hp)
    IN  [k \in DOMAIN sel |->
            [table |-> table, id |-> ParseInt(sel[k].key), ref |-> Len(hp) + k,
             via |-> "pop"]]

\* The list pop returns: table(**table_entry) builds a new instance with a
\* field-map of its own (allocated after `hp`) and an unset id.
PopResults(table, tbl, where, hp) ==
    LET sel == Selected(tbl, where, hp)
    IN  [k \in DOMAIN sel |->
            [table |-> table, id |-> -1, ref |-> Len(hp) + k, via |-> "pop"]]

\* The field-maps pop allocates for the instances it returns.
PopCopies(tbl, where, hp) ==
    LET sel == Selected(tbl, where, hp)
    IN  [k \in DOMAIN sel |-> hp[sel[k].ref]]

\* Every key of the table.
PopRemoveAll(tbl, where, hp) == Keys(tbl)

\* The keys pop deletes.
PopRemove(tbl, where, hp) == Keys(Selected(tbl, where, hp))

----------------------------------------------------------------------------
(* Table: record instances *)

\* A write that does not reach the field-map.
SetFieldLost(fields, name, value) == fields

\* Table.__setattr__ on a declared field: the write goes to the field-map.
SetField(fields, name, value) == [fields EXCEPT ![name] = value]

----------------------------------------------------------------------------
(* Reference counting: a field-map that no table and no held instance      *)
(* refers to is freed.  References are renumbered in order, so that heap   *)
(* holds exactly the field-maps in use.                                    *)

\* The references in use: those of the tables' items and of the instances.
Used(doc, ins) ==
    UNION {{doc[t][k].ref : k \in DOMAIN doc[t]} : t \in DOMAIN doc}
        \cup {ins[k].ref : k \in DOMAIN ins}

\* The new number of reference r: its rank among the references in use.
Rank(r, used) == Cardinality({u \in used : u <= r})

\* The document, the heap and the instances once the unused field-maps are freed.
Collect(doc, hp, ins) ==
    LET used == Used(doc, ins)
        InUse(r) == r \in used
        kept == SelectSeq([r \in DOMAIN hp |-> r], InUse)
    IN  [doc |-> [t \in DOMAIN doc |->
                    [k \in DOMAIN doc[t] |->
                        [key |-> doc[t][k].key, ref |-> Rank(doc[t][k].ref, used)]]],
         hp  |-> [n \in DOMAIN kept |-> hp[kept[n]]],
         ins |-> [k \in DOMAIN ins |->
                    [ins[k] EXCEPT !.ref = Rank(ins[k].ref, used)]]]

\* The in-memory snapshot as the JSON document shows it: per table, the
\* records in dict order, each with its key and its field values.
Snapshot(doc, hp) ==
    [t \in DOMAIN doc |->
        [k \in DOMAIN doc[t] |-> [key |-> doc[t][k].key, fields |-> hp[doc[t][k].ref]]]]

----------------------------------------------------------------------------
(* The backing file: Database.rollback and Database.commit *)

\* _file.exists() is false.
NoFile == [exists |-> FALSE]

\* _data is None: there is no document, hence no stamp.
NoStamp == -1

\* json.dumps(cls._data, indent=2), as the file holds it: the stamp and the
\* tables by value.
JsonDumps(t, doc, hp) ==
    [exists |-> TRUE, last_commit |-> t, tables |-> Snapshot(doc, hp)]

\* The order in which the tables' field-maps are allocated when a document
\* is read.
TableOrder == <<"entry", "project", "release", "file">>

\* json.loads(text): every record of the text becomes a field-map of its own.
RECURSIVE JsonLoads(_, _, _, _)
JsonLoads(tables, n, doc, hp) ==
    IF n > Len(TableOrder) THEN [doc |-> doc, hp |-> hp]
    ELSE IF TableOrder[n] \notin DOMAIN tables THEN JsonLoads(tables, n + 1, doc, hp)
    ELSE LET rows == tables[TableOrder[n]]
         IN  JsonLoads(tables, n + 1,
                 WithTable(doc, TableOrder[n],
                     [k \in DOMAIN rows |-> [key |-> rows[k].key, ref |-> Len(hp) + k]]),
                 hp \o [k \in DOMAIN rows |-> rows[k].fields])

\* The document rollback binds to _data: the file's when it exists, else
\* {'last_commit': datetime.now().isoformat()}.
ReadDoc ==
    IF db_file.exists
    THEN LET read == JsonLoads(db_file.tables, 1, EmptyDoc, heap)
         IN  [doc |-> read.doc, hp |-> read.hp, stamp |-> db_file.last_commit]
    ELSE [doc |-> EmptyDoc, hp |-> heap, stamp |-> now]

\* A load that reads the document whether or not one is cached.
LoadAlways == ReadDoc

\* `if cls._data is None: cls.rollback()`: the document, the heap and the
\* stamp the operations work on.
Load == IF loaded THEN [doc |-> data, hp |-> heap, stamp |-> stamp] ELSE ReadDoc

\* The tables of the document after the load.
Rollback == Load.doc

\* The field-maps after the load.
RollbackHeap == Load.hp

----------------------------------------------------------------------------
(* Bounds of the record-store runs *)

MaxRefs == 2         \* field-maps in use at a time in a record-store run
MaxTime == 1         \* the last reading of the clock
MaxStore == 1        \* field-maps in use at a time in a run with the backing file

\* Tables of the record-store runs: Entry (tests/database_tests.py) and Project.
DbTables == {"entry", "project"}

\* Field values of the record-store runs.
DbNames == {<<"a">>, <<"a", "b">>}

\* The field-maps of newly constructed records.
NewFields(table) == {[name |-> PyStr(n)] : n \in DbNames}

\* The lists of records a caller constructs at a time.
NewLists(table) == UNION {[1..n -> NewFields(table)] : n \in 1..MaxRefs}

\* The predicates a caller passes as `where`.
DbWheres ==
    {WAll, WAttr("eq", "name", PyStr(<<"a", "b">>))}
        \cup {WAttr("ne", "name", PyStr(n)) : n \in DbNames}

\* The argument lists of a put call: held instances of the table's type, each
\* given once.
PutArgs(table) ==
    LET own == {k \in DOMAIN insts : insts[k].table = table}
    IN  {es \in UNION {[1..n -> own] : n \in 0..Cardinality(own)} :
            \A p, q \in DOMAIN es : p # q => es[p] # es[q]}

----------------------------------------------------------------------------
(* The record store's operations.  The caller holds one list of instances: *)
(* the records it constructed last or the list the last get or pop         *)
(* returned (as database_tests.py rebinds `entry`, `popped`, `entries`).   *)

NoResult == [op |-> "init"]

\* The store before its first use: nothing loaded, no backing file.
Fresh ==
    /\ loaded = FALSE
    /\ data = EmptyDoc
    /\ stamp = NoStamp
    /\ heap = <<>>
    /\ insts = <<>>
    /\ storage = {}
    /\ calls = 0
    /\ db_file = NoFile
    /\ now = 0
    /\ raised = FALSE
    /\ site = {}

Init == Fresh /\ last = NoResult

\* [table(**f) for f in fields]: Table.__post_init__ gives each instance a
\* field-map of its own and the unset id -1.
New(table, fields) ==
    LET made == [k \in DOMAIN fields |->
                    [table |-> table, id |-> -1, ref |-> Len(heap) + k, via |-> "new"]]
    IN  /\ Cardinality(Used(data, <<>>)) + Len(fields) <= MaxRefs
        /\ \E c \in {Collect(data, heap \o fields, made)} :
              /\ data' = c.doc
              /\ heap' = c.hp
              /\ insts' = c.ins
        /\ last' = [op |-> "new"]
        /\ UNCHANGED <<loaded, storage, calls, db_file, stamp, now, raised, site>>

\* Database.put(table, *entries).
DbPut(table, entries) ==
    LET doc == Rollback
        r   == PutEntries(TableOf(doc, table), insts, entries)
    IN  /\ loaded' = TRUE
        /\ stamp' = Load.stamp
        /\ \E c \in {Collect(WithTable(doc, table, r.tbl), RollbackHeap, r.ins)} :
              /\ data' = c.doc
              /\ heap' = c.hp
              /\ insts' = c.ins
        /\ last' = [op |-> "put"]
        /\ UNCHANGED <<storage, calls, db_file, now, raised, site>>

\* entries = Database.get(table, where).
DbGet(table, where) ==
    LET doc == Rollback
        hp  == RollbackHeap
        tbl == TableOf(doc, table)
    IN  /\ loaded' = TRUE
        /\ stamp' = Load.stamp
        /\ IF table \in DOMAIN doc /\ ScanRaises(tbl, where, hp)
           THEN /\ data' = doc
                /\ heap' = hp
                /\ UNCHANGED insts
           ELSE \E c \in {Collect(doc, hp, GetResults(table, tbl, where, hp))} :
                    /\ data' = c.doc
                    /\ heap' = c.hp
                    /\ insts' = c.ins
        /\ last' = [op |-> "get"]
        /\ UNCHANGED <<storage, calls, db_file, now, raised, site>>

\* popped = Database.pop(table, where).
DbPop(table, where) ==
    LET doc  == Rollback
        hp   == RollbackHeap
        tbl  == TableOf(doc, table)
        left == IF table \in DOMAIN doc
                THEN WithTable(doc, table, DictDel(tbl, PopRemove(tbl, where, hp)))
                ELSE doc
    IN  /\ loaded' = TRUE
        /\ stamp' = Load.stamp
        /\ IF table \in DOMAIN doc /\ ScanRaises(tbl, where, hp)
           THEN /\ data' = doc
                /\ heap' = hp
                /\ UNCHANGED insts
           ELSE \E c \in {Collect(left, hp \o PopCopies(tbl, where, hp),
                                  PopResults(table, tbl, where, hp))} :
                    /\ data' = c.doc
                    /\ heap' = c.hp
                    /\ insts' = c.ins
        /\ last' = [op |-> "pop", table |-> table, where |-> where]
        /\ UNCHANGED <<storage, calls, db_file, now, raised, site>>

\* instance.<name> = value on a held instance, for a declared field.
SetAttr(k, name, value) ==
    /\ name \in DOMAIN heap[insts[k].ref]
    /\ heap' = [heap EXCEPT ![insts[k].ref] = SetField(@, name, value)]
    /\ last' = [op |-> "setattr"]
    /\ UNCHANGED <<loaded, data, insts, storage, calls, db_file, stamp, now, raised, site>>

\* The exception the try block of commit raises, "" when it raises none:
\* with _data None the item assignment is a TypeError, and write_text raises
\* an OSError when the file cannot be opened for writing.
CommitError(writable) ==
    IF ~loaded THEN "TypeError"
    ELSE IF ~writable THEN "OSError"
    ELSE ""

\* The handler of commit formats e.errno and e.strerror, attributes that
\* only an OSError has: for any other exception the handler itself raises.
HandlerRaises(e) == IF e = "OSError" THEN "" ELSE "AttributeError"

\* Database.commit().
Commit(writable) ==
    LET e == CommitError(writable)
    IN  /\ stamp' = IF loaded THEN now ELSE stamp
        /\ db_file' = IF e = "" THEN JsonDumps(now, data, heap) ELSE db_file
        /\ last' = [op      |-> "commit",
                    raises  |-> IF e = "" THEN "" ELSE HandlerRaises(e),
                    returns |-> e = ""]
        /\ UNCHANGED <<loaded, data, heap, insts, storage, calls, now, raised, site>>

\* Database.last_commit(): the load, and the stamp of the document.
LastCommit ==
    /\ loaded' = TRUE
    /\ data' = Rollback
    /\ heap' = RollbackHeap
    /\ stamp' = Load.stamp
    /\ last' = [op |-> "last_commit", returns |-> Load.stamp]
    /\ UNCHANGED <<insts, storage, calls, db_file, now, raised, site>>

\* Database.rollback(): the document is read anew, whatever _data held.
DbRollback ==
    /\ loaded' = TRUE
    /\ stamp' = ReadDoc.stamp
    /\ \E c \in {Collect(ReadDoc.doc, ReadDoc.hp, insts)} :
          /\ data' = c.doc
          /\ heap' = c.hp
          /\ insts' = c.ins
    /\ last' = [op |-> "rollback"]
    /\ UNCHANGED <<storage, calls, db_file, now, raised, site>>

\* Time passes between two operations.
Tick ==
    /\ now < MaxTime
    /\ now' = now + 1
    /\ last' = [op |-> "tick"]
    /\ UNCHANGED <<loaded, data, heap, insts, storage, calls, db_file, stamp, raised, site>>

NextDb ==
    \/ \E table \in DbTables : \E fields \in NewLists(table) : New(table, fields)
    \/ \E table \in DbTables : \E entries \in PutArgs(table) : DbPut(table, entries)
    \/ \E table \in DbTables : \E where \in DbWheres : DbGet(table, where)
    \/ \E table \in DbTables : \E where \in DbWheres : DbPop(table, where)
    \/ \E k \in DOMAIN insts : \E value \in {PyStr(n) : n \in DbNames} :
          SetAttr(k, "name", value)

SpecDb == Init /\ [][NextDb]_vars

\* The store with its backing file: one table, whole-table get and pop.
NextStore ==
    \/ Tick
    \/ \E writable \in BOOLEAN : Commit(writable)
    \/ LastCommit
    \/ Cardinality(Used(ReadDoc.doc, insts)) <= MaxStore /\ DbRollback
    \/ \E f \in NewFields("entry") : Len(heap) < MaxStore /\ New("entry", <<f>>)
    \/ \E entries \in PutArgs("entry") : DbPut("entry", entries)
    \/ DbGet("entry", WAll)
    \/ DbPop("entry", WAll)

SpecStore == Init /\ [][NextStore]_vars

----------------------------------------------------------------------------
(* Ingestion: make_package (src/warehub/__init__.py).  Sizes are counted in  *)
(* units of 1024 bytes, the artifacts' sizes being multiples of it.          *)

ONE_MB == 1024
ONE_GB == 1024 * ONE_MB
MAX_FILE_SIZE == 100 * ONE_MB
MAX_PROJECT_SIZE == 10 * ONE_GB

\* Project(name=..., created=..., documentation='', total_size=0); the
\* creation time is left out.
ProjectRecord(name) ==
    [name |-> PyStr(name), documentation |-> PyStr(<<>>), total_size |-> PyInt(0)]

\* Release(project_id=project.id, version=package.version, ...,
\* summary=package.summary, ...); of the metadata fields copied from the
\* package the summary stands for all.  yanked is not passed (lines 248-249)
\* and takes its default, False.
ReleaseRecord(project_id, version, summary) ==
    [project_id |-> PyInt(project_id), version |-> PyStr(version),
     summary |-> PyStr(summary), yanked |-> PyBool(FALSE)]

\* File(release_id=release.id, name=package.file.name, size=..., ...).
FileRecord(release_id, name, size) ==
    [release_id |-> PyInt(release_id), name |-> PyStr(name), size |-> PyInt(size)]

\* Project.name == package.name
ProjectWhere(name) == WAttr("eq", "name", PyStr(name))

\* (Release.project_id == project.id) & (Release.version == package.version)
ReleaseWhere(project_id, version) ==
    WAnd(WAttr("eq", "project_id", PyInt(project_id)),
         WAttr("eq", "version", PyStr(version)))

\* File.name == package.file.name
FileWhere(name) == WAttr("eq", "name", PyStr(name))

\* No instance: the step that binds it was not reached.
NoInst == [table |-> "", id |-> -1, ref |-> 0, via |-> ""]

\* Database.put(table, entry) for a record just constructed from `fields`:
\* the document and heap after it, and the instance with its id.
PutNew(doc, hp, table, fields) ==
    LET made == [table |-> table, id |-> -1, ref |-> Len(hp) + 1, via |-> "new"]
        r    == PutEntries(TableOf(doc, table), <<made>>, <<1>>)
    IN  [doc  |-> WithTable(doc, table, r.tbl),
         hp   |-> Append(hp, fields),
         inst |-> r.ins[1]]

\* Lines 197-209: the Project of the package is looked up, and created when
\* the lookup finds none.
ResolveProject(doc, hp, name) ==
    LET projects == GetResults("project", TableOf(doc, "project"), ProjectWhere(name), hp)
    IN  IF Len(projects) = 0
        THEN LET n == PutNew(doc, hp, "project", ProjectRecord(name))
             IN  [error |-> "", doc |-> n.doc, hp |-> n.hp, project |-> n.inst]
        ELSE IF Len(projects) > 1
        THEN [error |-> "Multiple Projects found", doc |-> doc, hp |-> hp,
              project |-> NoInst]
        ELSE [error |-> "", doc |-> doc, hp |-> hp, project |-> projects[1]]

\* Lines 211-255: the Release of the package is looked up, and created when
\* the lookup finds none.
ResolveRelease(doc, hp, project, version, summary) ==
    LET releases == GetResults("release", TableOf(doc, "release"),
                               ReleaseWhere(project.id, version), hp)
    IN  IF Len(releases) = 0
        THEN LET n == PutNew(doc, hp, "release",
                             ReleaseRecord(project.id, version, summary))
             IN  [error |-> "", doc |-> n.doc, hp |-> n.hp, release |-> n.inst]
        ELSE IF Len(releases) > 1
        THEN [error |-> "Multiple Releases found", doc |-> doc, hp |-> hp,
              release |-> NoInst]
        ELSE [error |-> "", doc |-> doc, hp |-> hp, release |-> releases[1]]

\* The checks before the File is stored, without the one of the size.
FileCheckNoSize(doc, hp, filename, size) ==
    IF Len(GetResults("file", TableOf(doc, "file"), FileWhere(filename), hp)) > 0
    THEN "File already exists"
    ELSE ""

\* Lines 259-264: the checks before the File is stored.
FileCheck(doc, hp, filename, size) ==
    IF size > MAX_FILE_SIZE THEN "File too large"
    ELSE IF Len(GetResults("file", TableOf(doc, "file"), FileWhere(filename), hp)) > 0
    THEN "File already exists"
    ELSE ""

\* project.total_size = file.size
TotalSizeReplaced(total_size, size) == size

\* project.total_size += file.size
TotalSizeAdd(total_size, size) == total_size + size

\* The File is stored only when the Project's total_size stays within the
\* ceiling.
StoreFileChecked(doc, hp, files, project, release, filename, size) ==
    IF TotalSizeAdd(hp[project.ref].total_size.i, size) > MAX_PROJECT_SIZE
    THEN [error |-> "Project is now too large", doc |-> doc, hp |-> hp,
          files |-> files, file |-> NoInst]
    ELSE LET n == PutNew(doc, hp, "file", FileRecord(release.id, filename, size))
         IN  [error |-> "",
              doc   |-> n.doc,
              hp    |-> [n.hp EXCEPT ![project.ref] =
                            SetField(@, "total_size",
                                     PyInt(TotalSizeAdd(hp[project.ref].total_size.i, size)))],
              files |-> files \cup {filename},
              file  |-> n.inst]

\* Lines 289-312: the File is stored and copied, and its size is added to the
\* Project's total_size, which is then checked.
StoreFile(doc, hp, files, project, release, filename, size) ==
    LET n     == PutNew(doc, hp, "file", FileRecord(release.id, filename, size))
        total == TotalSizeAdd(n.hp[project.ref].total_size.i,
                              n.hp[n.inst.ref].size.i)
    IN  [error |-> IF total > MAX_PROJECT_SIZE THEN "Project is now too large" ELSE "",
         doc   |-> n.doc,
         hp    |-> [n.hp EXCEPT ![project.ref] =
                       SetField(@, "total_size", PyInt(total))],
         files |-> files \cup {filename},
         file  |-> n.inst]

MaxIngest == 3       \* make_package calls in a run

Names == {<<"a">>, <<"a", "b">>}
Versions == {<<"1">>, <<"1", "+", "a">>}
Filenames == {<<"f">>, <<"f", "+", "g">>}
Sizes == {1, MAX_FILE_SIZE, MAX_FILE_SIZE + 1}
Summaries == {<<"s">>, <<"t">>}

\* What make_package reads off a distribution file: the package's name,
\* version and summary, the file's name and its size.
Artifacts ==
    [name : Names, version : Versions, summary : Summaries,
     filename : Filenames, size : Sizes]

\* What make_package did: the artifact, the error it raised ("" when it
\* returned the package) and the ids of the records it resolved or stored.
Outcome(art, error, project, release, file) ==
    [op |-> "make_package", art |-> art, error |-> error,
     project |-> project.id, release |-> release.id, file |-> file.id]

\* A loop that goes on to the next file whatever the call raised.
LeavesLoopNever(error) == FALSE

\* Whether the call leaves the loop: make_package reports every error by
\* raising, and the loop has no handler.
LeavesLoop(error) == error # ""

\* The backing file a commit of the document at the end of make_package would
\* leave.
AfterPackageCommitted(file, t, doc, hp) == JsonDumps(t, doc, hp)

\* The backing file at the end of make_package: the call of Database.commit
\* at line 314 is a comment, nothing writes the file.
AfterPackage(file, t, doc, hp) == file

\* One turn of the loop of handle_arguments (lines 177-179):
\* make_package(file, signatures) for the next artifact.  Every error of
\* make_package is an exception, which nothing catches: it leaves the loop.
MakePackage(art) ==
    /\ ~raised
    /\ calls < MaxIngest
    /\ calls' = calls + 1
    /\ loaded' = TRUE
    /\ stamp' = Load.stamp
    /\ UNCHANGED <<insts, now, site>>
    /\ \E p \in {ResolveProject(Rollback, RollbackHeap, art.name)} :
          IF p.error # ""
          THEN /\ data' = p.doc
               /\ heap' = p.hp
               /\ UNCHANGED storage
               /\ last' = Outcome(art, p.error, NoInst, NoInst, NoInst)
          ELSE \E r \in {ResolveRelease(p.doc, p.hp, p.project, art.version,
                                         art.summary)} :
                  IF r.error # ""
                  THEN /\ data' = r.doc
                       /\ heap' = r.hp
                       /\ UNCHANGED storage
                       /\ last' = Outcome(art, r.error, p.project, NoInst, NoInst)
                  ELSE \E e \in {FileCheck(r.doc, r.hp, art.filename, art.size)} :
                          IF e # ""
                          THEN /\ data' = r.doc
                               /\ heap' = r.hp
                               /\ UNCHANGED storage
                               /\ last' = Outcome(art, e, p.project, r.release, NoInst)
                          ELSE \E f \in {StoreFile(r.doc, r.hp, storage, p.project,
                                                   r.release, art.filename, art.size)} :
                                  /\ data' = f.doc
                                  /\ heap' = f.hp
                                  /\ storage' = f.files
                                  /\ last' = Outcome(art, f.error, p.project,
                                                     r.release, f.file)
    /\ raised' = LeavesLoop(last'.error)
    /\ db_file' = IF last'.error = ""
                  THEN AfterPackage(db_file, now, data', heap')
                  ELSE db_file

NextIngest == \E art \in Artifacts : MakePackage(art)

SpecIngest == Init /\ [][NextIngest]_vars

\* A backing file written after many ingestions: one Project, "a", with one
\* Release, "1", whose files fill the Project up to one unit below
\* MAX_PROJECT_SIZE: as many files of MAX_FILE_SIZE as fit, and one more of
\* the rest less one unit.  The files are named by their numbers.
FullCount == MAX_PROJECT_SIZE \div MAX_FILE_SIZE

FullRest == (MAX_PROJECT_SIZE % MAX_FILE_SIZE) - 1

FullFile ==
    [exists      |-> TRUE,
     last_commit |-> 0,
     tables      |->
        [t \in {"project", "release", "file"} |->
            IF t = "project"
            THEN <<[key    |-> Decimal(0),
                    fields |-> SetField(ProjectRecord(<<"a">>), "total_size",
                                        PyInt(MAX_PROJECT_SIZE - 1))]>>
            ELSE IF t = "release"
            THEN <<[key |-> Decimal(0), fields |-> ReleaseRecord(0, <<"1">>, <<"s">>)]>>
            ELSE [k \in 1..(FullCount + 1) |->
                    [key    |-> Decimal(k - 1),
                     fields |-> FileRecord(0, Decimal(k - 1),
                                           IF k <= FullCount THEN MAX_FILE_SIZE
                                                             ELSE FullRest)]]]]

\* A run of handle_arguments that finds this backing file.
InitFull ==
    /\ loaded = FALSE
    /\ data = EmptyDoc
    /\ stamp = NoStamp
    /\ heap = <<>>
    /\ insts = <<>>
    /\ storage = {Decimal(k - 1) : k \in 1..(FullCount + 1)}
    /\ calls = 0
    /\ db_file = FullFile
    /\ now = 0
    /\ raised = FALSE
    /\ site = {}
    /\ last = NoResult

SpecFull == InitFull /\ [][NextIngest]_vars

----------------------------------------------------------------------------
(* The site generator: generate_file_structure (src/warehub/generate.py).    *)
(* A generated file is [tree, project, version, page]: the tree it is in     *)
(* ("project", "simple", "pypi", or "home" for index.html of the current     *)
(* directory), the directories below the tree (<<>> where there is none)     *)
(* and what the page shows.  Of a page the template and the configuration    *)
(* are left out, get_config is taken to succeed, and of the fields of a      *)
(* Release and of a File those the store of the model holds are shown.       *)

\* Database.get(Release, where=Release.project_id == project.id)
ReleasesOf(doc, hp, project) ==
    GetResults("release", TableOf(doc, "release"),
               WAttr("eq", "project_id", PyInt(project.id)), hp)

\* Database.get(File, where=File.release_id == release.id)
FilesOf(doc, hp, release) ==
    GetResults("file", TableOf(doc, "file"),
               WAttr("eq", "release_id", PyInt(release.id)), hp)

\* path.write_text(page): the file at the path is created or replaced.
WriteText(st, tree, project, version, page) ==
    {e \in st : ~(e.tree = tree /\ e.project = project /\ e.version = version)}
        \cup {[tree |-> tree, project |-> project, version |-> version, page |-> page]}

\* delete_path(dir_path), for each of PROJECT_DIR, SIMPLE_DIR and PYPI_DIR:
\* every file below the directory is unlinked.
DeletePath(st, trees) == {e \in st : e.tree \notin trees}

\* delete_path is not called.
DeletePathSkipped(st) == st

\* Lines 44-46.
DeleteTrees(st) == DeletePath(st, {"project", "simple", "pypi"})

\* generate_release(path, project, release, show_version): the page written,
\* with the cards of the sibling Releases and of the Release's Files.
GenerateRelease(doc, hp, project, release, show_version) ==
    LET rs == ReleasesOf(doc, hp, project)
        fs == FilesOf(doc, hp, release)
    IN  [name     |-> hp[project.ref].name.s,
         version  |-> hp[release.ref].version.s,
         pip      |-> show_version,
         summary  |-> hp[release.ref].summary.s,
         releases |-> [k \in DOMAIN rs |-> hp[rs[k].ref].version.s],
         files    |-> [k \in DOMAIN fs |-> hp[fs[k].ref].name.s]]

\* Lines 167-170: the fold that keeps the Release of the greatest version,
\* from the n-th Release on.
RECURSIVE LatestOf(_, _, _, _)
LatestOf(releases, n, latest, hp) ==
    IF n > Len(releases) THEN latest
    ELSE LatestOf(releases, n + 1,
                  IF PyLess(hp[latest.ref].version, hp[releases[n].ref].version)
                  THEN releases[n] ELSE latest,
                  hp)

\* Lines 168-175: the page of each Release of the Project.
RECURSIVE ReleasePages(_, _, _, _, _, _)
ReleasePages(doc, hp, project, releases, n, st) ==
    IF n > Len(releases) THEN st
    ELSE ReleasePages(doc, hp, project, releases, n + 1,
                      WriteText(st, "project", hp[project.ref].name.s,
                                hp[releases[n].ref].version.s,
                                GenerateRelease(doc, hp, project, releases[n], TRUE)))

\* generate_pages, from the n-th Project on: the files after it, and the
\* exception that left it.  releases[0] of a Project without a Release is an
\* IndexError, raised after the pages of the Projects before it were written.
RECURSIVE GeneratePages(_, _, _, _, _, _)
GeneratePages(doc, hp, projects, n, listing, st) ==
    IF n > Len(projects)
    THEN [error |-> "", site |-> WriteText(st, "home", <<>>, <<>>, [packages |-> listing])]
    ELSE LET project  == projects[n]
             releases == ReleasesOf(doc, hp, project)
         IN  IF Len(releases) < 1 THEN [error |-> "IndexError", site |-> st]
             ELSE LET latest == LatestOf(releases, 1, releases[1], hp)
                      pages  == ReleasePages(doc, hp, project, releases, 1, st)
                  IN  GeneratePages(doc, hp, projects, n + 1,
                          Append(listing, [name    |-> hp[project.ref].name.s,
                                           version |-> hp[latest.ref].version.s,
                                           summary |-> hp[latest.ref].summary.s]),
                          WriteText(pages, "project", hp[project.ref].name.s, <<>>,
                                    GenerateRelease(doc, hp, project, latest, FALSE)))

\* The Files of every Release are linked (generate_simple of
\* src/tests/gen_files.py).
ListedAlways(hp, release) == TRUE

\* Line 231: if not release.yanked.
Listed(hp, release) == ~hp[release.ref].yanked.b

\* Lines 229-233: the links of the Files of the Releases, from the n-th on.
RECURSIVE SimpleLinks(_, _, _, _)
SimpleLinks(doc, hp, releases, n) ==
    IF n > Len(releases) THEN <<>>
    ELSE (IF Listed(hp, releases[n])
          THEN LET fs == FilesOf(doc, hp, releases[n])
               IN  [k \in DOMAIN fs |-> hp[fs[k].ref].name.s]
          ELSE <<>>) \o SimpleLinks(doc, hp, releases, n + 1)

\* generate_simple, from the n-th Project on.
RECURSIVE GenerateSimple(_, _, _, _, _, _)
GenerateSimple(doc, hp, projects, n, project_list, st) ==
    IF n > Len(projects)
    THEN WriteText(st, "simple", <<>>, <<>>, [list |-> project_list])
    ELSE LET project  == projects[n]
             releases == ReleasesOf(doc, hp, project)
         IN  IF Len(releases) < 1
             THEN GenerateSimple(doc, hp, projects, n + 1, project_list, st)
             ELSE GenerateSimple(doc, hp, projects, n + 1,
                      Append(project_list, hp[project.ref].name.s),
                      WriteText(st, "simple", hp[project.ref].name.s, <<>>,
                                [list |-> SimpleLinks(doc, hp, releases, 1)]))

\* releases[key] = value on a dict kept as <<[key, value]>> in insertion
\* order: a key already there keeps its place and takes the new value.
ItemSet(items, key, value) ==
    IF \E k \in DOMAIN items : items[k].key = key
    THEN [k \in DOMAIN items |->
             IF items[k].key = key THEN [key |-> key, value |-> value] ELSE items[k]]
    ELSE Append(items, [key |-> key, value |-> value])

\* releases[key]
ItemGet(items, key) == items[CHOOSE k \in DOMAIN items : items[k].key = key].value

\* Lines 258-281: the list of the Files of the Release r.
FileList(doc, hp, r) ==
    LET fs == FilesOf(doc, hp, r)
    IN  [k \in DOMAIN fs |-> [filename |-> hp[fs[k].ref].name.s,
                              size     |-> hp[fs[k].ref].size.i,
                              yanked   |-> hp[r.ref].yanked.b]]

\* Lines 256-281: the dict `releases`, filled from the n-th Release on.
RECURSIVE ReleasesDict(_, _, _, _, _)
ReleasesDict(doc, hp, rs, n, items) ==
    IF n > Len(rs) THEN items
    ELSE ReleasesDict(doc, hp, rs, n + 1,
                      ItemSet(items, hp[rs[n].ref].version.s, FileList(doc, hp, rs[n])))

\* create_json(path, project, release), path being the directory `version`
\* of the Project's directory (<<>> for the directory itself).
CreateJson(doc, hp, st, version, project, release) ==
    LET releases == ReleasesDict(doc, hp, ReleasesOf(doc, hp, project), 1, <<>>)
    IN  WriteText(st, "pypi", hp[project.ref].name.s, version,
            [info            |-> [name    |-> hp[project.ref].name.s,
                                  version |-> hp[release.ref].version.s,
                                  summary |-> hp[release.ref].summary.s,
                                  yanked  |-> hp[release.ref].yanked.b],
             urls            |-> ItemGet(releases, hp[release.ref].version.s),
             releases        |-> releases,
             vulnerabilities |-> <<>>,
             last_serial     |-> -1])

\* Lines 331-340: the documents of the Releases of a Project from the n-th
\* on, then the one of `latest` (<<>> standing for None).
RECURSIVE ProjectJson(_, _, _, _, _, _, _)
ProjectJson(doc, hp, project, releases, n, latest, st) ==
    IF n > Len(releases)
    THEN IF latest # <<>> THEN CreateJson(doc, hp, st, <<>>, project, latest[1]) ELSE st
    ELSE IF hp[releases[n].ref].yanked.b
    THEN ProjectJson(doc, hp, project, releases, n + 1, latest, st)
    ELSE ProjectJson(doc, hp, project, releases, n + 1,
             IF latest = <<>> \/ PyLess(hp[latest[1].ref].version,
                                        hp[releases[n].ref].version)
             THEN <<releases[n]>> ELSE latest,
             CreateJson(doc, hp, st, hp[releases[n].ref].version.s, project,
                        releases[n]))

\* generate_json, from the n-th Project on.
RECURSIVE GenerateJson(_, _, _, _, _)
GenerateJson(doc, hp, projects, n, st) ==
    IF n > Len(projects) THEN st
    ELSE LET releases == ReleasesOf(doc, hp, projects[n])
         IN  IF Len(releases) < 1 THEN GenerateJson(doc, hp, projects, n + 1, st)
             ELSE GenerateJson(doc, hp, projects, n + 1,
                      ProjectJson(doc, hp, projects[n], releases, 1, <<>>, st))

\* generate_file_structure(): the files after it and the exception that
\* left it.
FileStructure(doc, hp, st) ==
    LET projects == GetResults("project", TableOf(doc, "project"), WAll, hp)
        pages    == GeneratePages(doc, hp, projects, 1, <<>>, DeleteTrees(st))
    IN  IF pages.error # "" THEN pages
        ELSE [error |-> "",
              site  |-> GenerateJson(doc, hp, projects, 1,
                            GenerateSimple(doc, hp, projects, 1, <<>>, pages.site))]

\* A run of generate_file_structure.  The instances its lookups return are
\* dropped when it ends; `deleted` are the paths of the files delete_path
\* has unlinked.
GenerateFileStructure ==
    /\ loaded' = TRUE
    /\ stamp' = Load.stamp
    /\ data' = Rollback
    /\ heap' = RollbackHeap
    /\ \E g \in {FileStructure(Rollback, RollbackHeap, site)} :
          /\ site' = g.site
          /\ last' = [op |-> "generate", error |-> g.error,
                      deleted |-> {[tree |-> e.tree, project |-> e.project,
                                    version |-> e.version] :
                                       e \in site \ DeleteTrees(site)}]
    /\ UNCHANGED <<insts, storage, calls, db_file, now, raised>>

\* make_package(art) on a store: the store and the copied files after it,
\* and the message of the exception it raised.
MakePackageOn(st, art) ==
    CHOOSE out \in
        {IF p.error # ""
         THEN [error |-> p.error, doc |-> p.doc, hp |-> p.hp, files |-> st.files]
         ELSE CHOOSE made \in
                {IF r.error # ""
                 THEN [error |-> r.error, doc |-> r.doc, hp |-> r.hp,
                       files |-> st.files]
                 ELSE CHOOSE stored \in
                        {IF e # ""
                         THEN [error |-> e, doc |-> r.doc, hp |-> r.hp,
                               files |-> st.files]
                         ELSE CHOOSE copied \in
                                {[error |-> f.error, doc |-> f.doc, hp |-> f.hp,
                                  files |-> f.files] :
                                    f \in {StoreFile(r.doc, r.hp, st.files, p.project,
                                                     r.release, art.filename,
                                                     art.size)}} : TRUE :
                            e \in {FileCheck(r.doc, r.hp, art.filename, art.size)}} :
                        TRUE :
                    r \in {ResolveRelease(p.doc, p.hp, p.project, art.version,
                                          art.summary)}} : TRUE :
            p \in {ResolveProject(st.doc, st.hp, art.name)}} : TRUE

\* The loop of handle_arguments over a batch, from its n-th artifact on: an
\* exception leaves it.
RECURSIVE Ingested(_, _, _)
Ingested(batch, n, st) ==
    IF n > Len(batch) \/ st.error # "" THEN st
    ELSE CHOOSE out \in {Ingested(batch, n + 1, next) :
                            next \in {MakePackageOn(st, batch[n])}} : TRUE

Artifact(name, version, filename) ==
    [name |-> name, version |-> version, summary |-> version, filename |-> filename,
     size |-> 1]

\* The batches ingested before the generator runs: two Projects with the
\* versions 2.9 and 2.10; a version that is ingested twice; the versions in
\* the other order; no artifact.
GenBatches ==
    {<<Artifact(<<"a">>, <<"2", ".", "9">>, <<"f">>),
       Artifact(<<"a">>, <<"2", ".", "1", "0">>, <<"g">>),
       Artifact(<<"b">>, <<"2", ".", "9">>, <<"h">>)>>,
     <<Artifact(<<"a">>, <<"1", "+", "a">>, <<"f">>),
       Artifact(<<"a">>, <<"1", "+", "a">>, <<"g">>),
       Artifact(<<"a">>, <<"2", ".", "9">>, <<"h">>)>>,
     <<Artifact(<<"a">>, <<"2", ".", "1", "0">>, <<"f">>),
       Artifact(<<"a">>, <<"2", ".", "9">>, <<"g">>)>>,
     <<>>}

\* for r in Database.get(Release): r.yanked = True, for the Releases whose
\* ids are in `ids`.
Yanked(doc, hp, ids) ==
    LET rs   == GetResults("release", TableOf(doc, "release"), WAll, hp)
        refs == {rs[k].ref : k \in {j \in DOMAIN rs : rs[j].id \in ids}}
    IN  [r \in DOMAIN hp |->
            IF r \in refs THEN SetField(hp[r], "yanked", PyBool(TRUE)) ELSE hp[r]]

\* The lookups by which Releases and Projects are removed from the store.
GenRemovals ==
    {[table |-> "release", where |-> WAttr("eq", "version", PyStr(<<"2", ".", "9">>))],
     [table |-> "release", where |-> WAttr("eq", "project_id", PyInt(0))],
     [table |-> "project", where |-> WAttr("eq", "name", PyStr(<<"a">>))]}

\* The store after a batch was ingested and some of its Releases were
\* yanked; nothing was generated yet.
InitGen ==
    \E batch \in GenBatches :
    \E st \in {Ingested(batch, 1, [error |-> "", doc |-> EmptyDoc, hp |-> <<>>,
                                   files |-> {}])} :
    \E ids \in SUBSET {ParseInt(TableOf(st.doc, "release")[k].key) :
                          k \in DOMAIN TableOf(st.doc, "release")} :
        /\ loaded = TRUE
        /\ data = st.doc
        /\ heap = Yanked(st.doc, st.hp, ids)
        /\ stamp = NoStamp
        /\ insts = <<>>
        /\ storage = st.files
        /\ calls = Len(batch)
        /\ db_file = NoFile
        /\ now = 0
        /\ raised = FALSE
        /\ site = {}
        /\ last = NoResult

NextGen ==
    \/ GenerateFileStructure
    \/ \E rm \in GenRemovals : DbPop(rm.table, rm.where)

SpecGen == InitGen /\ [][NextGen]_vars

----------------------------------------------------------------------------
(* The metadata validator: MetadataForm (src/warehub/metadata.py).  The      *)
(* form of the model holds the fields below, in schema order; the optional   *)
(* fields it leaves out are None and `classifiers` is the empty list, so     *)
(* that none of them stops the validation.                                   *)

PyNone == [none |-> TRUE]

\* `not value` for None or a str.
Falsy(v) == v = PyNone \/ v = PyStr(<<>>)

LowerCase ==
    {"a", "b", "c", "d", "e", "f", "g", "h", "i", "j", "k", "l", "m",
     "n", "o", "p", "q", "r", "s", "t", "u", "v", "w", "x", "y", "z"}
UpperCase ==
    {"A", "B", "C", "D", "E", "F", "G", "H", "I", "J", "K", "L", "M",
     "N", "O", "P", "Q", "R", "S", "T", "U", "V", "W", "X", "Y", "Z"}
DigitChars == {Digits[k] : k \in DOMAIN Digits}
WhiteSpace == {" ", "\n", "\t"}

\* [A-Z0-9] under re.IGNORECASE.
IsAlnum(c) == c \in LowerCase \cup UpperCase \cup DigitChars

\* [A-F0-9] under re.IGNORECASE.
IsHex(c) == c \in DigitChars \cup {"a", "b", "c", "d", "e", "f", "A", "B", "C", "D", "E", "F"}

\* The text a pattern ending in $ has to match in full: $ also matches just
\* before a newline that ends the string.
BeforeEnd(v) ==
    {v} \cup (IF Len(v) > 0 /\ v[Len(v)] = "\n" THEN {SubSeq(v, 1, Len(v) - 1)} ELSE {})

\* re.match(r'^([A-Z0-9]|[A-Z0-9][A-Z0-9._-]*[A-Z0-9])$', v, re.IGNORECASE)
NameRe(v) ==
    \E w \in BeforeEnd(v) :
        /\ Len(w) > 0
        /\ IsAlnum(w[1]) /\ IsAlnum(w[Len(w)])
        /\ \A k \in DOMAIN w : IsAlnum(w[k]) \/ w[k] \in {".", "_", "-"}

\* re.match(r'^(?!\s).*(?<!\s)$', v)
VersionRe(v) ==
    \E w \in BeforeEnd(v) :
        /\ \A k \in DOMAIN w : w[k] # "\n"
        /\ Len(v) > 0 => v[1] \notin WhiteSpace
        /\ Len(w) > 0 => w[Len(w)] \notin WhiteSpace

\* re.match(r'^.+$', v)
SingleLineRe(v) ==
    \E w \in BeforeEnd(v) : Len(w) > 0 /\ \A k \in DOMAIN w : w[k] # "\n"

DigestLen == 64

\* re.match(r'^[A-F0-9]{64}$', v, re.IGNORECASE)
DigestRe(v) ==
    \E w \in BeforeEnd(v) : Len(w) = DigestLen /\ \A k \in DOMAIN w : IsHex(w[k])

\* The position of the first "+" of v, 0 when it has none.
PlusAt(v) ==
    IF \E k \in DOMAIN v : v[k] = "+"
    THEN CHOOSE k \in DOMAIN v : v[k] = "+" /\ \A j \in 1..(k - 1) : v[j] # "+"
    ELSE 0

\* Segments separated by single dots, each of one or more characters of `ok`.
Dotted(w, ok) ==
    /\ Len(w) > 0
    /\ w[1] # "." /\ w[Len(w)] # "."
    /\ \A k \in DOMAIN w : w[k] = "." \/ w[k] \in ok
    /\ \A k \in 1..(Len(w) - 1) : ~(w[k] = "." /\ w[k + 1] = ".")

\* v without the whitespace around it (the version pattern is matched
\* between \s* and \s*).
Strip(v) ==
    LET ks == {k \in DOMAIN v : v[k] \notin WhiteSpace}
    IN  IF ks = {} THEN <<>>
        ELSE SubSeq(v, CHOOSE k \in ks : \A j \in ks : k <= j,
                       CHOOSE k \in ks : \A j \in ks : j <= k)

\* packaging.version.parse(v), for a text of digits, dots, letters and "+"
\* with whitespace around it: whether it is a PEP 440 Version, here a
\* release N(.N)* with an optional local segment +label(.label)*, and
\* whether it has the local segment.  (Epochs, pre-, post- and dev-releases
\* are outside the model's versions.)
ParseVersion(v) ==
    LET w == Strip(v)
        k == PlusAt(w)
        release == IF k = 0 THEN w ELSE SubSeq(w, 1, k - 1)
        local   == IF k = 0 THEN <<>> ELSE SubSeq(w, k + 1, Len(w))
    IN  [version |-> /\ Dotted(release, DigitChars)
                     /\ k # 0 => Dotted(local, LowerCase \cup DigitChars),
         local   |-> k # 0]

\* _validate_pep440_version(name, value): the message it raises, "" when it
\* raises none.
ValidatePep440Version(v) ==
    LET parsed == ParseVersion(v)
    IN  IF ~parsed.version THEN "Start and end with a letter or numeral"
        ELSE IF parsed.local THEN "Can't use PEP 440 local versions."
        ELSE ""

MetadataVersions ==
    {<<"1", ".", "0">>, <<"1", ".", "1">>, <<"1", ".", "2">>, <<"2", ".", "0">>, <<"2", ".", "1">>}

FileTypes == {<<"b", "d", "i", "s", "t", "_", "e", "g", "g">>, <<"b", "d", "i", "s", "t", "_", "w", "h", "e", "e", "l">>, <<"s", "d", "i", "s", "t">>}

SummaryMax == 512

\* The validators of the schema.
VMetadataVersion ==
    [kind |-> "AnyOf", values |-> MetadataVersions,
     message |-> "Use a known metadata version."]
VName == [kind |-> "NameRe", message |-> "Start and end with a letter or numeral"]
VVersionSpace ==
    [kind |-> "VersionRe", message |-> "Can't have leading or trailing whitespace."]
VVersionPep440 == [kind |-> "Pep440"]
VSummaryLength == [kind |-> "Length", max |-> SummaryMax, message |-> "length must be <=512"]
VSummaryLine == [kind |-> "SingleLineRe", message |-> "Use a single line only."]
VFiletype == [kind |-> "AnyOf", values |-> FileTypes, message |-> "Use a known file type."]
VSha256 ==
    [kind |-> "DigestRe", message |-> "Use a valid, hex-encoded, SHA256 message digest."]
VBlake2 ==
    [kind |-> "DigestRe", message |-> "Use a valid, hex-encoded, BLAKE2 message digest."]

\* validator(field.name, value): the message of the ValueError it raises, ""
\* when it raises none.
Validate(validator, v) ==
    CASE validator.kind = "Pep440" -> ValidatePep440Version(v)
      [] validator.kind = "AnyOf" ->
            IF v \in validator.values THEN "" ELSE validator.message
      [] validator.kind = "Length" ->
            IF Len(v) <= validator.max THEN "" ELSE validator.message
      [] validator.kind = "NameRe" -> IF NameRe(v) THEN "" ELSE validator.message
      [] validator.kind = "VersionRe" -> IF VersionRe(v) THEN "" ELSE validator.message
      [] validator.kind = "SingleLineRe" ->
            IF SingleLineRe(v) THEN "" ELSE validator.message
      [] validator.kind = "DigestRe" -> IF DigestRe(v) THEN "" ELSE validator.message

\* fields(MetadataForm), in the order of the class body: the name, whether
\* the type is Optional, and the validators in the order of the list.
Schema ==
    <<[name |-> "metadata_version", optional |-> FALSE, validators |-> <<VMetadataVersion>>],
      [name |-> "name", optional |-> FALSE, validators |-> <<VName>>],
      [name |-> "version", optional |-> FALSE,
       validators |-> <<VVersionSpace, VVersionPep440>>],
      [name |-> "summary", optional |-> TRUE,
       validators |-> <<VSummaryLength, VSummaryLine>>],
      [name |-> "pyversion", optional |-> TRUE, validators |-> <<>>],
      [name |-> "filetype", optional |-> FALSE, validators |-> <<VFiletype>>],
      [name |-> "md5_digest", optional |-> TRUE, validators |-> <<>>],
      [name |-> "sha256_digest", optional |-> TRUE, validators |-> <<VSha256>>],
      [name |-> "blake2_256_digest", optional |-> TRUE, validators |-> <<VBlake2>>]>>

\* The message of the last validator of a field that raises, every
\* validator being run.
RECURSIVE ValidatorsErrorLast(_, _, _)
ValidatorsErrorLast(validators, n, v) ==
    IF n > Len(validators) THEN ""
    ELSE IF ValidatorsErrorLast(validators, n + 1, v) # ""
    THEN ValidatorsErrorLast(validators, n + 1, v)
    ELSE Validate(validators[n], v)

\* The first message the validators of a field raise from the n-th on.
RECURSIVE ValidatorsError(_, _, _)
ValidatorsError(validators, n, v) ==
    IF n > Len(validators) THEN ""
    ELSE IF Validate(validators[n], v) # "" THEN Validate(validators[n], v)
    ELSE ValidatorsError(validators, n + 1, v)

\* Lines 474-486: the loop over the fields from the n-th on.
RECURSIVE FieldsError(_, _)
FieldsError(form, n) ==
    IF n > Len(Schema) THEN ""
    ELSE LET f == Schema[n]
             v == form[f.name]
         IN  IF v = PyNone
             THEN IF f.optional THEN FieldsError(form, n + 1)
                  ELSE "missing required field"
             ELSE IF ValidatorsError(f.validators, 1, v.s) # ""
             THEN ValidatorsError(f.validators, 1, v.s)
             ELSE FieldsError(form, n + 1)

\* Lines 474-486: the name of the field at which the loop raises, from the
\* n-th on ("" when it raises at none).
RECURSIVE FailedField(_, _)
FailedField(form, n) ==
    IF n > Len(Schema) THEN ""
    ELSE LET f == Schema[n]
             v == form[f.name]
         IN  IF v = PyNone
             THEN IF f.optional THEN FailedField(form, n + 1) ELSE f.name
             ELSE IF ValidatorsError(f.validators, 1, v.s) # "" THEN f.name
             ELSE FailedField(form, n + 1)

Sdist == PyStr(<<"s", "d", "i", "s", "t">>)
Source == PyStr(<<"s", "o", "u", "r", "c", "e">>)

\* Lines 488-497: the rules on the python-version tag.
PyversionError(form) ==
    IF ~Falsy(form.filetype) /\ form.filetype # Sdist /\ Falsy(form.pyversion)
    THEN "Python version is required for binary distribution uploads."
    ELSE IF form.filetype = Sdist /\ ~Falsy(form.pyversion) /\ form.pyversion # Source
    THEN "Use 'source' as Python version for an sdist."
    ELSE ""

\* The tag is left as it was given.
PyversionKept(form) == form

\* Line 495: self.pyversion = 'source'.
PyversionFilled(form) ==
    IF form.filetype = Sdist /\ Falsy(form.pyversion)
    THEN [form EXCEPT !.pyversion = Source]
    ELSE form

\* A rule on the digests that the BLAKE2 digest satisfies as well.
DigestErrorAnyOfThree(form) ==
    IF Falsy(form.md5_digest) /\ Falsy(form.sha256_digest)
            /\ Falsy(form.blake2_256_digest)
    THEN "Include at least one message digest."
    ELSE ""

\* Lines 499-501: the rule on the digests.
DigestError(form) ==
    IF Falsy(form.md5_digest) /\ Falsy(form.sha256_digest)
    THEN "Include at least one message digest."
    ELSE ""

\* MetadataForm.__post_init__: the message of the ValueError it raises (""
\* when it raises none), the field the message is about ("" for a rule
\* across fields) and the form as it leaves it.
PostInit(form) ==
    IF FieldsError(form, 1) # ""
    THEN [error |-> FieldsError(form, 1), field |-> FailedField(form, 1), form |-> form]
    ELSE IF PyversionError(form) # ""
    THEN [error |-> PyversionError(form), field |-> "", form |-> form]
    ELSE IF DigestError(form) # ""
    THEN [error |-> DigestError(form), field |-> "", form |-> PyversionFilled(form)]
    ELSE [error |-> "", field |-> "", form |-> PyversionFilled(form)]

\* The forms of the validator runs: every combination of the values below.
Hex64 == [k \in 1..DigestLen |-> "a"]

\* A text longer than a summary may be, of line ends only.
LongLines == [k \in 1..(SummaryMax + 1) |-> "\n"]

Forms ==
    [metadata_version  : {PyNone, PyStr(<<"2", ".", "1">>), PyStr(<<"9">>)},
     name              : {PyStr(<<"a">>), PyStr(<<"-">>)},
     version           : {PyStr(<<"1">>), PyStr(<<"1", "+", "a">>), PyStr(<<".">>),
                          PyStr(<<" ", ".">>)},
     summary           : {PyNone, PyStr(<<>>), PyStr(LongLines)},
     pyversion         : {PyNone, PyStr(<<>>), Source, PyStr(<<"p", "y", "3">>)},
     filetype          : {PyNone, Sdist, PyStr(<<"b", "d", "i", "s", "t", "_", "w", "h", "e", "e", "l">>), PyStr(<<"b", "d", "i", "s", "t", "_", "w", "i", "n", "i", "n", "s", "t">>)},
     md5_digest        : {PyNone, PyStr(<<>>), PyStr(<<"m">>)},
     sha256_digest     : {PyNone, PyStr(<<>>), PyStr(Hex64)},
     blake2_256_digest : {PyNone, PyStr(Hex64), PyStr(<<"z", "z">>)}]

InitForm ==
    /\ Fresh
    /\ last \in {[op |-> "kwargs", form |-> f] : f \in Forms}

\* MetadataForm(**kwargs): the dataclass binds the fields and runs
\* __post_init__.
Construct ==
    /\ last.op = "kwargs"
    /\ \E r \in {PostInit(last.form)} :
          last' = [op |-> "form", given |-> last.form, error |-> r.error,
                   field |-> r.field, form |-> r.form]
    /\ UNCHANGED <<loaded, data, heap, insts, storage, calls, db_file, stamp, now, raised, site>>

NextForm == Construct

SpecForm == InitForm /\ [][NextForm]_vars

----------------------------------------------------------------------------
(* The distribution inspector: Package.__init__ (src/warehub/package.py).    *)
(* A file name is the sequence of its characters.  What pkginfo reads from   *)
(* the archive is an input: that it raises EOFError, or the name and the     *)
(* version of the metadata (None when the metadata has none).  The digests   *)
(* of the file are left out.                                                 *)

\* The extensions, as sequences of characters.
Whl == <<".", "w", "h", "l">>
Exe == <<".", "e", "x", "e">>
Egg == <<".", "e", "g", "g">>
TarBz2 == <<".", "t", "a", "r", ".", "b", "z", "2">>
TarGz == <<".", "t", "a", "r", ".", "g", "z">>
Zip == <<".", "z", "i", "p">>

\* DIST_EXTENSIONS.items(), in the order of the dict.
DIST_EXTENSIONS ==
    <<[ext |-> Whl, file_type |-> "bdist_wheel"],
      [ext |-> Exe, file_type |-> "bdist_wininst"],
      [ext |-> Egg, file_type |-> "bdist_egg"],
      [ext |-> TarBz2, file_type |-> "sdist"],
      [ext |-> TarGz, file_type |-> "sdist"],
      [ext |-> Zip, file_type |-> "sdist"]>>

\* The keys of DIST_VERSION.
DIST_VERSION == {"bdist_wheel", "bdist_wininst", "bdist_egg"}

\* str.endswith
EndsWith(s, suffix) ==
    Len(suffix) <= Len(s) /\ SubSeq(s, Len(s) - Len(suffix) + 1, Len(s)) = suffix

\* The index of the first entry of DIST_EXTENSIONS the file name ends with,
\* from the n-th on (0 when it ends with none: the else of the for loop).
RECURSIVE ExtensionOf(_, _)
ExtensionOf(name, n) ==
    IF n > Len(DIST_EXTENSIONS) THEN 0
    ELSE IF EndsWith(name, DIST_EXTENSIONS[n].ext) THEN n
    ELSE ExtensionOf(name, n + 1)

\* What a backtracking matcher finds first: F at the least k of `range` at
\* which it finds anything.
FirstOf(range, F(_)) ==
    IF \E k \in range : F(k) # {}
    THEN F(CHOOSE k \in range : F(k) # {} /\ \A j \in range : j < k => F(j) = {})
    ELSE {}

\* -(?P<pyver>.+?)-(?P<abi>.+?)-(?P<plat>.+?) from x[from] to the end of x:
\* the pyver of the first match (lazy groups: the shortest pyver that lets
\* the rest match).
TagsFrom(x, from) ==
    FirstOf(1..Len(x),
            LAMBDA p :
                IF /\ from + p + 1 <= Len(x)
                   /\ x[from] = "-"
                   /\ x[from + p + 1] = "-"
                   /\ \E a \in 1..Len(x) :
                         /\ from + p + a + 2 < Len(x)
                         /\ x[from + p + a + 2] = "-"
                THEN {SubSeq(x, from + 1, from + p)}
                ELSE {})

\* (-(?P<build>\d.*?))? and the tags after it: the group is tried first,
\* with the shortest build first, and left out when no match has it.
BuildFrom(x, from) ==
    LET tried == FirstOf(0..Len(x),
                        LAMBDA b :
                            IF /\ from + 1 + b < Len(x)
                               /\ x[from] = "-"
                               /\ x[from + 1] \in DigitChars
                            THEN TagsFrom(x, from + 2 + b)
                            ELSE {})
    IN  IF tried # {} THEN tried ELSE TagsFrom(x, from)

\* (-(?P<ver>\d.+?))? and what follows it, after a name of n characters.
VerFrom(x, from) ==
    LET tried == FirstOf(1..Len(x),
                        LAMBDA v :
                            IF /\ from + 1 + v < Len(x)
                               /\ x[from] = "-"
                               /\ x[from + 1] \in DigitChars
                            THEN BuildFrom(x, from + 2 + v)
                            ELSE {})
    IN  IF tried # {} THEN tried ELSE BuildFrom(x, from)

\* DIST_VERSION['bdist_wheel'].match(name) and DIST_VERSION['bdist_egg']
\* .match(name), for a name that ends with the extension `ext`: the group
\* pyver of the match ({} when there is no match).  The name holds no line
\* end; the alternatives \.dist-info and \.egg-info match no such name.
TagPattern(name, ext) ==
    LET x == SubSeq(name, 1, Len(name) - Len(ext))
    IN  FirstOf(1..Len(x), LAMBDA n : VerFrom(x, n + 1))

\* \d+
AllDigits(s) == s # <<>> /\ \A k \in DOMAIN s : s[k] \in DigitChars

\* DIST_VERSION['bdist_wininst'].match(name), .*py(?P<pyver>\d+\.\d+)\.exe$:
\* the group pyver of the match.
WinInstPattern(name) ==
    LET x == SubSeq(name, 1, Len(name) - Len(Exe))
    IN  {SubSeq(x, i + 2, Len(x)) :
            i \in {j \in 1..Len(x) :
                     /\ j + 1 <= Len(x)
                     /\ x[j] = "p"
                     /\ x[j + 1] = "y"
                     /\ \E d \in (j + 3)..(Len(x) - 1) :
                           /\ x[d] = "."
                           /\ AllDigits(SubSeq(x, j + 2, d - 1))
                           /\ AllDigits(SubSeq(x, d + 1, Len(x)))}}

\* DIST_VERSION[file_type].match(name)
Pyver(file_type, name) ==
    CASE file_type = "bdist_wheel" -> TagPattern(name, Whl)
      [] file_type = "bdist_egg" -> TagPattern(name, Egg)
      [] file_type = "bdist_wininst" -> WinInstPattern(name)

\* self.python_version = 'any'
AnyTag == PyStr(<<"a", "n", "y">>)

\* Lines 133-137.
PythonVersion(file_type, name) ==
    IF file_type \in DIST_VERSION
    THEN IF Pyver(file_type, name) # {}
         THEN PyStr(CHOOSE v \in Pyver(file_type, name) : TRUE)
         ELSE AnyTag
    ELSE PyNone

\* [^A-Za-z0-9.]
Unsafe(c) == c \notin LowerCase \cup UpperCase \cup DigitChars \cup {"."}

\* re.sub('[^A-Za-z0-9.]', '-', name): every character is replaced for itself.
RECURSIVE SafeNameEach(_)
SafeNameEach(name) ==
    IF name = <<>> THEN <<>>
    ELSE <<IF Unsafe(Head(name)) THEN "-" ELSE Head(name)>> \o SafeNameEach(Tail(name))

\* The rest of `name` after the characters [^A-Za-z0-9.] at its start.
RECURSIVE SkipUnsafe(_)
SkipUnsafe(name) ==
    IF name # <<>> /\ Unsafe(Head(name)) THEN SkipUnsafe(Tail(name)) ELSE name

\* _safe_name(name) = re.sub('[^A-Za-z0-9.]+', '-', name): scanning from the
\* left, the longest match at a position is replaced and the scan goes on
\* after it.
RECURSIVE _safe_name(_)
_safe_name(name) ==
    IF name = <<>> THEN <<>>
    ELSE IF Unsafe(Head(name)) THEN <<"-">> \o _safe_name(SkipUnsafe(name))
    ELSE <<Head(name)>> \o _safe_name(Tail(name))

\* Package(file, comment): the exception it raises ("" when none) and the
\* attributes it has set.
PackageInit(name, read) ==
    LET n == ExtensionOf(name, 1)
        file_type == DIST_EXTENSIONS[n].file_type
        none == [file_type |-> PyNone, python_version |-> PyNone, safe_name |-> PyNone]
    IN  IF n = 0 THEN [error |-> "Unknown distribution format"] @@ none
        ELSE IF read.raises # "" THEN [error |-> "Invalid distribution file"] @@ none
        ELSE IF Falsy(read.name) \/ Falsy(read.version)
        THEN [error |-> "Invalid distribution metadata"] @@ none
        ELSE [error          |-> "",
              file_type      |-> PyStr(file_type),
              python_version |-> PythonVersion(file_type, name),
              safe_name      |-> PyStr(_safe_name(read.name.s))]

MaxPieces == 5       \* pieces of a file name before its extension
MaxName == 4         \* length of the name in the metadata

RECURSIVE Flat(_)
Flat(pieces) == IF pieces = <<>> THEN <<>> ELSE Head(pieces) \o Flat(Tail(pieces))

\* The parts a file name is made of before its extension.
Pieces == {<<"a">>, <<"-", "a">>, <<"-", "1", "a">>, <<"p", "y", "1", ".", "1">>}

Stems == {Flat(ps) : ps \in UNION {[1..n -> Pieces] : n \in 0..MaxPieces}}

\* The file names inspected: a stem and an extension, known or not.
InspectFiles ==
    {stem \o ext : stem \in Stems,
                   ext \in {Whl, Exe, Egg, TarGz, Zip, <<".", "t", "x", "t">>}}

NameChars == {"a", "Z", "1", ".", "_", "!", "-"}

\* The names read from the metadata.
MetadataNames ==
    UNION {[1..n -> NameChars] : n \in 1..MaxName}
        \cup {<<"f", "o", "o", "_", "_", "b", "a", "r", ".", "v", "1", "!", "!", "b",
                "a", "z">>}

Metadata(name, version) == [raises |-> "", name |-> name, version |-> version]

\* A file and what pkginfo reads from it.
InitInspect ==
    /\ Fresh
    /\ last \in {[op |-> "file", name |-> f, read |-> Metadata(PyStr(<<"a">>), PyStr(<<"1">>))] :
                    f \in InspectFiles}
          \cup {[op |-> "file", name |-> <<"a">> \o Zip, read |-> r] :
                    r \in {[raises |-> "EOFError", name |-> PyNone, version |-> PyNone],
                           Metadata(PyNone, PyStr(<<"1">>)),
                           Metadata(PyStr(<<"a">>), PyNone)}
                          \cup {Metadata(PyStr(n), PyStr(<<"1">>)) : n \in MetadataNames}}

\* package = Package(file, comment)
Inspect ==
    /\ last.op = "file"
    /\ \E r \in {PackageInit(last.name, last.read)} :
          last' = [op |-> "package", name |-> last.name, read |-> last.read,
                   error |-> r.error, file_type |-> r.file_type,
                   python_version |-> r.python_version, safe_name |-> r.safe_name]
    /\ UNCHANGED <<loaded, data, heap, insts, storage, calls, db_file, stamp, now, raised,
                   site>>

NextInspect == Inspect

SpecInspect == InitInspect /\ [][NextInspect]_vars

----------------------------------------------------------------------------
(* Properties of the record store *)

\* The keys a table holds when put inserts the p-th record of `entries`: the
\* keys before the call and the keys given to the records inserted before it.
KeysAtInsert(pre, after, entries, p) ==
    Keys(pre) \cup {Decimal(after[entries[q]].id) : q \in 1..(p - 1)}

\* C6: Database.put gives every record whose id is unset the smallest
\* non-negative integer that is not a key of the table at the moment the
\* record is inserted (gaps left by removals are filled, records inserted in
\* one call get successive free ids), and the record's field-map is stored
\* under that id written as a decimal string.
C6_PutAssignsSmallestFreeId ==
    [][last'.op = "put" =>
          \A table \in DbTables : \A entries \in PutArgs(table) :
              DbPut(table, entries) =>
                  \A p \in DOMAIN entries :
                      LET k    == entries[p]
                          n    == insts'[k].id
                          keys == KeysAtInsert(TableOf(Rollback, table), insts', entries, p)
                      IN  insts[k].id < 0 =>
                              /\ n >= 0
                              /\ Decimal(n) \notin keys
                              /\ \A m \in 0..(n - 1) : Decimal(m) \in keys
                              /\ \E j \in DOMAIN data'[table] :
                                    /\ data'[table][j].key = Decimal(n)
                                    /\ ParseInt(data'[table][j].key) = n
                                    /\ data'[table][j].ref = insts'[k].ref
                                    /\ heap'[insts'[k].ref] = heap[insts[k].ref]
      ]_vars

\* A put has filled the gap a removal left: key "0" was given out again after
\* key "1", so it stands behind it in the table.
C6_Witness ==
    /\ last.op = "put"
    /\ \E table \in DOMAIN data :
          /\ Len(data[table]) = 2
          /\ data[table][1].key = <<"1">>
          /\ data[table][2].key = <<"0">>

\* C7: for every table and record, after Database.put has inserted the record
\* (it has an id now), Database.get, with any predicate the record satisfies,
\* returns a record that carries the assigned id and has the inserted
\* record's field values.
C7_PutThenGet ==
    [][last'.op = "put" =>
          \A k \in DOMAIN insts : \A where \in DbWheres :
              (insts'[k].id >= 0 /\ Compare(where, heap[insts[k].ref])) =>
                  \E got \in {Records(GetResults(insts[k].table,
                                                 TableOf(data', insts[k].table),
                                                 where, heap'), heap')} :
                      \E g \in DOMAIN got :
                          /\ got[g].id = insts'[k].id
                          /\ got[g].fields = heap[insts[k].ref]
      ]_vars

\* Two records were inserted by one put call, and both are stored.
C7_Witness ==
    /\ last.op = "put"
    /\ Len(insts) = 2
    /\ \A k \in DOMAIN insts :
          /\ insts[k].via = "new"
          /\ insts[k].id >= 0
          /\ \E j \in DOMAIN data[insts[k].table] :
                data[insts[k].table][j].ref = insts[k].ref

\* The stored records of a table that `where` selects / does not select.
Matching(recs, where) ==
    LET Hit(e) == Compare(where, e.fields) IN SelectSeq(recs, Hit)
NotMatching(recs, where) ==
    LET Miss(e) == ~Compare(where, e.fields) IN SelectSeq(recs, Miss)

\* C8: Database.pop with a predicate removes from the table exactly the
\* records the predicate holds for and returns exactly those; the records it
\* does not hold for stay under their ids with their field values, and the
\* other tables are unchanged.
C8_PopRemovesExactlyMatched ==
    [][last'.op = "pop" =>
              LET table  == last'.table
                  where  == last'.where
                  before == Snapshot(Rollback, RollbackHeap)
                  after  == Snapshot(data', heap')
              IN  /\ DOMAIN after = DOMAIN before
                  /\ \A u \in DOMAIN before \ {table} : after[u] = before[u]
                  /\ table \in DOMAIN before =>
                        /\ after[table] = NotMatching(before[table], where)
                        /\ [k \in DOMAIN insts' |-> heap'[insts'[k].ref]]
                              = [k \in DOMAIN Matching(before[table], where) |->
                                    Matching(before[table], where)[k].fields]
                  /\ table \notin DOMAIN before => insts' = <<>>
      ]_vars

\* A pop has removed a record and left another one, stored under key "1".
C8_Witness ==
    /\ last.op = "pop"
    /\ Len(insts) = 1
    /\ \E table \in DOMAIN data :
          /\ insts[1].table = table
          /\ Len(data[table]) = 1
          /\ data[table][1].key = <<"1">>

\* C9: an instance returned by Database.get is a live view of the stored
\* record: assigning to a declared field of it changes the in-memory
\* snapshot, so a later get of the table returns the new value for that
\* record, and every other record is unchanged.
C9_GetReturnsLiveView ==
    [][\A k \in DOMAIN insts : \A value \in {PyStr(n) : n \in DbNames} :
          (last'.op = "setattr" /\ insts[k].via = "get" /\ SetAttr(k, "name", value)) =>
              LET table == insts[k].table
                  got   == Records(GetResults(table, TableOf(data', table), WAll, heap'),
                                   heap')
              IN  /\ \E g \in DOMAIN got :
                        /\ got[g].id = insts[k].id
                        /\ got[g].fields = [heap[insts[k].ref] EXCEPT !["name"] = value]
                  /\ DOMAIN data' = DOMAIN data
                  /\ \A u \in DOMAIN data : \A j \in DOMAIN data[u] :
                        (u # table \/ data[u][j].key # Decimal(insts[k].id)) =>
                            Snapshot(data', heap')[u][j] = Snapshot(data, heap)[u][j]
      ]_vars

\* A field of an instance that get returned was assigned, in a table that
\* holds a second record, and the stored record shows a value the other
\* record does not have.
C9_Witness ==
    /\ last.op = "setattr"
    /\ Len(insts) = 1
    /\ insts[1].via = "get"
    /\ LET tbl == data[insts[1].table]
       IN  /\ Len(tbl) = 2
           /\ \E j \in DOMAIN tbl : tbl[j].ref = insts[1].ref
           /\ heap[tbl[1].ref] # heap[tbl[2].ref]

----------------------------------------------------------------------------
(* Field predicates applied to operands: `Entry.name <op> other` is built    *)
(* and compared with a record's field-map.                                  *)

MaxLen == 2          \* length of the strings compared

CmpAlphabet == {"a", "b", ".", "+"}

\* The strings of at most MaxLen characters.
CmpStrings == UNION {[1..n -> CmpAlphabet] : n \in 0..MaxLen}

\* The field values: every str, and ints.
CmpValues == {PyStr(v) : v \in CmpStrings} \cup {PyInt(0), PyInt(1)}

\* The operands: a str in which no quantifier follows another one (what
\* re.compile makes of "++" depends on the interpreter's version), and ints.
CmpOperands ==
    {PyStr(v) : v \in {w \in CmpStrings :
                         \A k \in 2..Len(w) : ~(IsQuantifier(w[k]) /\ IsQuantifier(w[k - 1]))}}
        \cup {PyInt(0), PyInt(1)}

CmpOps == {"eq", "ne", "lt", "le", "gt", "ge"}

InitCmp ==
    /\ Fresh
    /\ last \in {[op |-> "operands", value |-> v, other |-> o] :
                    v \in CmpValues, o \in CmpOperands}

\* (Entry.name <op> other).compare({'name': value}): whether it raises, and
\* what it returns when it does not.
ApplyCmp(op) ==
    /\ last.op = "operands"
    /\ \E w \in {WAttr(op, "name", last.other)} :
       \E fields \in {[name |-> last.value]} :
          last' = [op     |-> op,
                   value  |-> last.value,
                   other  |-> last.other,
                   raises |-> CompareRaises(w, fields),
                   holds  |-> ~CompareRaises(w, fields) /\ Compare(w, fields)]
    /\ UNCHANGED <<loaded, data, heap, insts, storage, calls, db_file, stamp, now, raised, site>>

NextCmp == \E op \in CmpOps : ApplyCmp(op)

SpecCmp == InitCmp /\ [][NextCmp]_vars

----------------------------------------------------------------------------
(* Properties of the field predicates *)

\* The atoms of a pattern and whether each is repeated, read off the pattern
\* text: position k holds an atom when it is no quantifier.
AtomsOf(p) == {k \in 1..Len(p) : ~IsQuantifier(p[k])}
Repeated(p, k) == k < Len(p) /\ IsQuantifier(p[k + 1])

\* The pattern p matches the whole of w: w splits into one stretch per atom,
\* of one character, or of one or more when the atom is repeated, each
\* character being the atom's or any when the atom is ".".
Fits(p, w) ==
    \E cut \in [AtomsOf(p) -> 0..Len(w)] :
        /\ \A k, m \in AtomsOf(p) : k < m => cut[k] < cut[m]
        /\ \A k \in AtomsOf(p) :
              LET from == IF \E m \in AtomsOf(p) : m < k
                          THEN cut[CHOOSE m \in AtomsOf(p) :
                                     m < k /\ \A q \in AtomsOf(p) : q < k => q <= m]
                          ELSE 0
              IN  /\ cut[k] > from
                  /\ Repeated(p, k) \/ cut[k] = from + 1
                  /\ \A c \in (from + 1)..cut[k] : p[k] = "." \/ w[c] = p[k]
        /\ \A k \in AtomsOf(p) : (\A m \in AtomsOf(p) : m <= k) => cut[k] = Len(w)
        /\ AtomsOf(p) = {} => w = <<>>

\* The pattern is found anywhere in s: some stretch of s fits it.
Found(p, s) ==
    \E i \in 1..(Len(s) + 1) : \E j \in (i - 1)..Len(s) : Fits(p, SubSeq(s, i, j))

\* u sorts before v: they agree up to a position where u ends or has the
\* smaller character.
Before(u, v) ==
    \E k \in 1..Len(v) :
        /\ k <= Len(u) + 1
        /\ \A m \in 1..(k - 1) : u[m] = v[m]
        /\ k = Len(u) + 1 \/ CodePoint(u[k]) < CodePoint(v[k])

\* Plain value order, for two values of one type.
PlainLess(x, y) == IF IsStr(x) THEN Before(x.s, y.s) ELSE x.i < y.i

\* C10: field predicates follow the regex-first policy.  When the operand
\* compiles as a regex, `field == operand` holds iff the pattern is found
\* anywhere in the field's (str) value and `field != operand` iff it is not;
\* when it does not compile (not a str, or not a valid regex), == and != are
\* exact equality and inequality of the values; <, <=, >, >= compare the
\* plain values and never use the regex (on values of one type).
C10_RegexFirstPolicy ==
    last.op \in CmpOps =>
        LET v == last.value
            o == last.other
        IN  /\ (last.op \in {"eq", "ne"} /\ Compiles(o) /\ IsStr(v)) =>
                  /\ ~last.raises
                  /\ last.holds <=> (Found(o.s, v.s) <=> last.op = "eq")
            /\ (last.op \in {"eq", "ne"} /\ ~Compiles(o)) =>
                  /\ ~last.raises
                  /\ last.holds <=> ((v = o) <=> last.op = "eq")
            /\ (last.op \in {"lt", "le", "gt", "ge"} /\ IsStr(v) = IsStr(o)) =>
                  /\ ~last.raises
                  /\ last.op = "lt" => (last.holds <=> PlainLess(v, o))
                  /\ last.op = "le" => (last.holds <=> (PlainLess(v, o) \/ v = o))
                  /\ last.op = "gt" => (last.holds <=> PlainLess(o, v))
                  /\ last.op = "ge" => (last.holds <=> (PlainLess(o, v) \/ v = o))

\* `field == "b"` held for the value "ab": the pattern was found inside a
\* value that is not equal to it.
C10_Witness ==
    /\ last.op = "eq"
    /\ last.value = PyStr(<<"a", "b">>)
    /\ last.other = PyStr(<<"b">>)
    /\ last.holds

----------------------------------------------------------------------------
(* Properties of ingestion *)

\* The records of a table: each one's id and field values, in dict order.
Rows(doc, hp, table) ==
    [k \in DOMAIN TableOf(doc, table) |->
        [id     |-> ParseInt(TableOf(doc, table)[k].key),
         fields |-> hp[TableOf(doc, table)[k].ref]]]

\* The ids of the records of `rows` whose field `name` has the value `value`.
IdsWith(rows, name, value) ==
    {rows[k].id : k \in {j \in DOMAIN rows : rows[j].fields[name] = value}}

\* C1: ingestion resolves the Project by exact name match.  For an artifact
\* named N: when no stored Project has name exactly N, a new Project is
\* created (its total_size counts from 0); when exactly one has, it is
\* reused; the Project an artifact is attached to always has name exactly N.
C1_ProjectByExactName ==
    [][last'.op = "make_package" =>
          \E before \in {Rows(Rollback, RollbackHeap, "project")} :
          \E after \in {Rows(data', heap', "project")} :
              LET N     == PyStr(last'.art.name)
                  exact == IdsWith(before, "name", N)
                  used  == last'.project
              IN  /\ used >= 0 => used \in IdsWith(after, "name", N)
                  /\ exact = {} =>
                        /\ used >= 0
                        /\ used \notin {before[k].id : k \in DOMAIN before}
                        /\ \E k \in DOMAIN after :
                              /\ after[k].id = used
                              /\ after[k].fields.total_size.i =
                                    IF last'.file >= 0 THEN last'.art.size ELSE 0
                  /\ Cardinality(exact) = 1 => used \in exact
      ]_vars

\* C2: after any sequence of ingestions from an empty store, no two Project
\* records share a name, and the name of an ingested artifact has a Project
\* record of its own.
C2_OneProjectPerName ==
    \E ps \in {Rows(data, heap, "project")} :
        /\ \A i, j \in DOMAIN ps : i # j => ps[i].fields.name # ps[j].fields.name
        /\ (last.op = "make_package" /\ last.error = "") =>
              IdsWith(ps, "name", PyStr(last.art.name)) # {}

\* C3: after any sequence of ingestions from an empty store, no two Release
\* records share (project_id, version), and an ingested artifact with version
\* V is attached to a Release of its Project whose version is exactly V.
C3_OneReleasePerVersion ==
    \E rs \in {Rows(data, heap, "release")} :
        /\ \A i, j \in DOMAIN rs :
              i # j => \/ rs[i].fields.project_id # rs[j].fields.project_id
                       \/ rs[i].fields.version # rs[j].fields.version
        /\ (last.op = "make_package" /\ last.error = "") =>
              \E i \in DOMAIN rs :
                  /\ rs[i].id = last.release
                  /\ rs[i].fields.project_id = PyInt(last.project)
                  /\ rs[i].fields.version = PyStr(last.art.version)

\* C4: after any sequence of ingestions, no two File records have the same
\* filename.
C4_FilenamesUnique ==
    \E fs \in {Rows(data, heap, "file")} :
        \A i, j \in DOMAIN fs : i # j => fs[i].fields.name # fs[j].fields.name

\* The sum of the sizes of the File records among the first n of `fs` whose
\* release is one of `releases`.
RECURSIVE SizeOfFiles(_, _, _)
SizeOfFiles(fs, releases, n) ==
    IF n = 0 THEN 0
    ELSE SizeOfFiles(fs, releases, n - 1)
            + (IF fs[n].fields.release_id.i \in releases THEN fs[n].fields.size.i ELSE 0)

\* C5: after any sequence of ingestions, every Project's total_size equals
\* the sum of the sizes of the File records that belong to its Releases.
C5_TotalSizeIsSumOfFiles ==
    \E ps \in {Rows(data, heap, "project")} :
    \E rs \in {Rows(data, heap, "release")} :
    \E fs \in {Rows(data, heap, "file")} :
        \A i \in DOMAIN ps :
            ps[i].fields.total_size.i =
                SizeOfFiles(fs, IdsWith(rs, "project_id", PyInt(ps[i].id)), Len(fs))

\* Two files of different sizes were ingested for one Project, in two
\* Releases of it.
C5_Witness ==
    /\ last.op = "make_package"
    /\ last.error = ""
    /\ \E ps \in {Rows(data, heap, "project")} :
       \E rs \in {Rows(data, heap, "release")} :
       \E fs \in {Rows(data, heap, "file")} :
          /\ Len(fs) = 2
          /\ fs[1].fields.release_id # fs[2].fields.release_id
          /\ \E i \in DOMAIN ps :
                /\ ps[i].fields.total_size.i = MAX_FILE_SIZE + 1
                /\ Cardinality(IdsWith(rs, "project_id", PyInt(ps[i].id))) = 2

----------------------------------------------------------------------------
(* Properties of the backing file *)

\* C11: Database.commit never raises: whenever it fails (called before the
\* store was loaded, or the file cannot be written) it returns False, and when
\* it returns True the document carries the current time as last_commit and
\* the file holds the whole document.
C11_CommitNeverRaises ==
    last.op = "commit" =>
        /\ last.raises = ""
        /\ last.returns =>
              /\ stamp = now
              /\ db_file = JsonDumps(now, data, heap)

\* C12: loading is idempotent.  A load with the document already cached
\* (last_commit(), or the load that opens get) leaves the in-memory snapshot
\* as it was, uncommitted changes included; the first load, the backing file
\* not existing, gives the document that holds a last_commit stamp, the
\* current time, and nothing else.
C12_LoadIdempotent ==
    [][last'.op \in {"last_commit", "get"} =>
          /\ loaded =>
                /\ Snapshot(data', heap') = Snapshot(data, heap)
                /\ stamp' = stamp
          /\ ~loaded /\ ~db_file.exists =>
                /\ loaded'
                /\ DOMAIN data' = {}
                /\ stamp' = now
      ]_vars

\* last_commit() was called on a cached document that differs from the file's:
\* a record was put after the commit, and the clock has moved on.
C12_Witness ==
    /\ last.op = "last_commit"
    /\ db_file.exists
    /\ Snapshot(data, heap) # db_file.tables
    /\ "entry" \in DOMAIN data /\ Len(data["entry"]) > 0
    /\ last.returns = stamp
    /\ stamp # now

----------------------------------------------------------------------------
(* Missing tables *)

\* C13: get and pop on a table the document does not have return the empty
\* list, do not raise and leave the document as it was, the table not being
\* created; put on such a table creates it, whatever records it is given.
C13_MissingTable ==
    [][/\ last'.op = "get" =>
             \A table \in DbTables \ DOMAIN Rollback : \A where \in DbWheres :
                 DbGet(table, where) =>
                     /\ ~ScanRaises(TableOf(Rollback, table), where, RollbackHeap)
                     /\ insts' = <<>>
                     /\ Snapshot(data', heap') = Snapshot(Rollback, RollbackHeap)
       /\ last'.op = "pop" /\ last'.table \notin DOMAIN Rollback =>
             /\ ~ScanRaises(TableOf(Rollback, last'.table), last'.where, RollbackHeap)
             /\ insts' = <<>>
             /\ Snapshot(data', heap') = Snapshot(Rollback, RollbackHeap)
       /\ last'.op = "put" =>
             \A table \in DbTables \ DOMAIN Rollback : \A entries \in PutArgs(table) :
                 DbPut(table, entries) =>
                     /\ DOMAIN data' = DOMAIN Rollback \cup {table}
                     /\ Len(data'[table]) = Len(entries)
      ]_vars

\* A pop on the missing table "project" has left a document whose only table
\* is "entry", created by a put.
C13_Witness ==
    /\ last.op = "pop"
    /\ last.table = "project"
    /\ DOMAIN data = {"entry"}
    /\ Len(data["entry"]) > 0
    /\ insts = <<>>

----------------------------------------------------------------------------
(* Size ceilings *)

\* C14: an artifact whose size is strictly greater than MAX_FILE_SIZE is
\* rejected: make_package raises, the File table is as before, nothing is
\* copied to storage, and every Project's total_size is as before (a Project
\* created for the artifact has total_size 0).  An artifact of exactly
\* MAX_FILE_SIZE is not rejected as too large.
C14_FileTooLarge ==
    [][last'.op = "make_package" =>
          /\ last'.art.size > MAX_FILE_SIZE =>
                \E before \in {Rows(Rollback, RollbackHeap, "project")} :
                \E after \in {Rows(data', heap', "project")} :
                    /\ last'.error # ""
                    /\ raised'
                    /\ Rows(data', heap', "file") = Rows(Rollback, RollbackHeap, "file")
                    /\ storage' = storage
                    /\ \A i \in DOMAIN before : after[i] = before[i]
                    /\ \A i \in DOMAIN after \ DOMAIN before :
                          after[i].fields.total_size = PyInt(0)
          /\ last'.art.size = MAX_FILE_SIZE => last'.error # "File too large"
      ]_vars

\* An artifact one unit above the ceiling was rejected as too large, for a
\* Project that holds a file of exactly the ceiling size.
C14_Witness ==
    /\ last.op = "make_package"
    /\ last.art.size = MAX_FILE_SIZE + 1
    /\ last.error = "File too large"
    /\ \E ps \in {Rows(data, heap, "project")} :
          /\ Len(ps) = 1
          /\ ps[1].fields.total_size = PyInt(MAX_FILE_SIZE)
    /\ Len(Rows(data, heap, "file")) = 1
    /\ Cardinality(storage) = 1

\* C15: when the size of an artifact takes its Project's total_size above
\* MAX_PROJECT_SIZE, make_package fails only once the File is stored: after
\* the failing step the File record of the artifact is in the store, its copy
\* is in storage and the Project's total_size is the former one plus the
\* file's size.  A step that does not fail leaves every total_size within
\* the ceiling.
C15_ProjectTooLargeAfterStore ==
    [][last'.op = "make_package" =>
          \E before \in {Rows(Rollback, RollbackHeap, "project")} :
          \E after \in {Rows(data', heap', "project")} :
          \E files \in {Rows(data', heap', "file")} :
              /\ last'.error = "Project is now too large" =>
                    /\ raised'
                    /\ Len(files) = Len(Rows(Rollback, RollbackHeap, "file")) + 1
                    /\ files[Len(files)] =
                          [id     |-> last'.file,
                           fields |-> FileRecord(last'.release, last'.art.filename,
                                                 last'.art.size)]
                    /\ last'.art.filename \in storage'
                    /\ \E i \in DOMAIN after :
                          /\ after[i].id = last'.project
                          /\ after[i].fields.total_size.i > MAX_PROJECT_SIZE
                          /\ after[i].fields.total_size.i =
                                (IF i \in DOMAIN before
                                 THEN before[i].fields.total_size.i ELSE 0)
                                    + last'.art.size
              /\ last'.error = "" =>
                    \A i \in DOMAIN after :
                        after[i].fields.total_size.i <= MAX_PROJECT_SIZE
      ]_vars

\* The Project read from the backing file was one unit below the ceiling; an
\* artifact of one unit filled it, and the next one, of the largest size
\* allowed, was stored and then refused.
C15_Witness ==
    /\ last.op = "make_package"
    /\ last.error = "Project is now too large"
    /\ calls = 2
    /\ last.art.size = MAX_FILE_SIZE
    /\ Len(Rows(data, heap, "file")) = FullCount + 3
    /\ Rows(data, heap, "project")[1].fields.total_size
          = PyInt(MAX_PROJECT_SIZE + MAX_FILE_SIZE)
    /\ last.art.filename \in storage

----------------------------------------------------------------------------
(* Properties of the metadata validator *)

\* A form whose fields other than the python-version tag and the file type
\* are valid: a known metadata version, a plain name and version, no
\* summary, an MD5 digest and well-formed or absent SHA-256 and BLAKE2 digests.
ValidButTag(f) ==
    /\ f.metadata_version = PyStr(<<"2", ".", "1">>)
    /\ f.name = PyStr(<<"a">>)
    /\ f.version = PyStr(<<"1">>)
    /\ f.summary = PyNone
    /\ f.md5_digest = PyStr(<<"m">>)
    /\ f.sha256_digest \in {PyNone, PyStr(Hex64)}
    /\ f.blake2_256_digest \in {PyNone, PyStr(Hex64)}

\* C19: the python-version rule of the Validator.  An sdist without a tag
\* (None or '') is accepted, the form being otherwise valid, and leaves with
\* the tag 'source'; an sdist with a tag other than 'source' is rejected; a
\* form that is not an sdist and has no tag is rejected.
C19_PyversionRule ==
    last.op = "form" =>
        /\ last.given.filetype = Sdist /\ Falsy(last.given.pyversion) =>
              /\ last.error \notin
                    {"Python version is required for binary distribution uploads.",
                     "Use 'source' as Python version for an sdist."}
              /\ ValidButTag(last.given) =>
                    /\ last.error = ""
                    /\ last.form = [last.given EXCEPT !.pyversion = Source]
        /\ /\ last.given.filetype = Sdist
           /\ ~Falsy(last.given.pyversion)
           /\ last.given.pyversion # Source
           => last.error # ""
        /\ last.given.filetype # Sdist /\ Falsy(last.given.pyversion) =>
              last.error # ""

\* An sdist given without a tag was accepted and carries the tag 'source'.
C19_Witness ==
    /\ last.op = "form"
    /\ last.given.filetype = Sdist
    /\ last.given.pyversion = PyNone
    /\ last.error = ""
    /\ last.form.pyversion = Source

\* C20: the Validator rejects every form in which the MD5 and the SHA-256
\* digest are both absent or empty, and the digest rule raises for no form
\* that has one of the two, whatever its BLAKE2 digest is.
C20_DigestRule ==
    last.op = "form" =>
        /\ Falsy(last.given.md5_digest) /\ Falsy(last.given.sha256_digest) =>
              last.error # ""
        /\ ~(Falsy(last.given.md5_digest) /\ Falsy(last.given.sha256_digest)) =>
              last.error # "Include at least one message digest."

\* A form with a well-formed BLAKE2 digest and no other digest was rejected
\* by the digest rule.
C20_Witness ==
    /\ last.op = "form"
    /\ last.given.md5_digest = PyNone
    /\ last.given.sha256_digest = PyNone
    /\ last.given.blake2_256_digest = PyStr(Hex64)
    /\ last.error = "Include at least one message digest."

----------------------------------------------------------------------------
(* Ingestion and the validator *)

\* Package.metadata_dictionary() for an artifact of the ingestion runs: its
\* name, version and summary, as an sdist of metadata version 2.1 with an
\* MD5 and a SHA-256 digest.
MetadataOf(art) ==
    [metadata_version  |-> PyStr(<<"2", ".", "1">>),
     name              |-> PyStr(art.name),
     version           |-> PyStr(art.version),
     summary           |-> PyStr(art.summary),
     pyversion         |-> PyNone,
     filetype          |-> Sdist,
     md5_digest        |-> PyStr(<<"m">>),
     sha256_digest     |-> PyStr(Hex64),
     blake2_256_digest |-> PyNone]

\* C16: an artifact whose metadata the Validator rejects is rejected by
\* ingestion: make_package raises for it and creates no Project, Release or
\* File record from it.
C16_ValidatorRuns ==
    [][last'.op = "make_package" /\ PostInit(MetadataOf(last'.art)).error # "" =>
          /\ last'.error # ""
          /\ Snapshot(data', heap') = Snapshot(Rollback, RollbackHeap)
      ]_vars

\* C18: an artifact for a (project, version) that is already stored, the
\* Project having exactly its name and the Release exactly its version,
\* leaves the Release table as it was, whatever summary it carries; when it
\* is ingested, it is attached to that Release, one File record is added and
\* the total_size of that Project, and nothing else of the Project table,
\* changes, growing by the file's size.
C18_FirstWriterWins ==
    [][last'.op = "make_package" =>
          \E ps \in {Rows(Rollback, RollbackHeap, "project")} :
          \E rs \in {Rows(Rollback, RollbackHeap, "release")} :
              \A i \in DOMAIN ps : \A j \in DOMAIN rs :
                  /\ ps[i].fields.name = PyStr(last'.art.name)
                  /\ rs[j].fields.project_id = PyInt(ps[i].id)
                  /\ rs[j].fields.version = PyStr(last'.art.version)
                  => /\ Rows(data', heap', "release") = rs
                     /\ last'.error = "" =>
                           /\ last'.project = ps[i].id
                           /\ last'.release = rs[j].id
                           /\ Len(Rows(data', heap', "file"))
                                 = Len(Rows(Rollback, RollbackHeap, "file")) + 1
                           /\ Rows(data', heap', "project") =
                                 [ps EXCEPT ![i].fields.total_size =
                                     PyInt(@.i + last'.art.size)]
      ]_vars

----------------------------------------------------------------------------
(* The batch *)

\* The rows of `before` are rows of `after`, at the same places, with the
\* same ids and fields (but for a field named in `but`).
Remain(before, after, but) ==
    /\ Len(before) <= Len(after)
    /\ \A i \in DOMAIN before :
          /\ after[i].id = before[i].id
          /\ \A n \in DOMAIN before[i].fields \ but :
                after[i].fields[n] = before[i].fields[n]

\* C17: the batch has no per-item isolation.  No artifact is ingested after
\* one for which make_package raised; and the call that raises leaves in the
\* store every record that was there before it (a Project's total_size may
\* have grown) and the Project, Release and File it had resolved or created
\* by the time it raised.
C17_BatchAborts ==
    [][/\ ~(last.op = "make_package" /\ last.error # "")
       /\ last'.op = "make_package" /\ last'.error # "" =>
             \E ps \in {Rows(data', heap', "project")} :
             \E rs \in {Rows(data', heap', "release")} :
             \E fs \in {Rows(data', heap', "file")} :
                 /\ Remain(Rows(Rollback, RollbackHeap, "project"), ps, {"total_size"})
                 /\ Remain(Rows(Rollback, RollbackHeap, "release"), rs, {})
                 /\ Remain(Rows(Rollback, RollbackHeap, "file"), fs, {})
                 /\ last'.project >= 0 =>
                       \E i \in DOMAIN ps : ps[i].id = last'.project
                 /\ last'.release >= 0 =>
                       \E j \in DOMAIN rs :
                           /\ rs[j].id = last'.release
                           /\ rs[j].fields.project_id = PyInt(last'.project)
                 /\ last'.file >= 0 =>
                       \E k \in DOMAIN fs :
                           /\ fs[k].id = last'.file
                           /\ fs[k].fields.release_id = PyInt(last'.release)
      ]_vars

\* The second artifact of a batch, the first of a new Project, was too
\* large: its Project and Release stay in the store next to the records of
\* the first artifact, and the artifacts after it are not ingested.
C17_Witness ==
    /\ raised
    /\ calls = 2
    /\ calls < MaxIngest
    /\ last.error = "File too large"
    /\ Len(Rows(data, heap, "project")) = 2
    /\ Len(Rows(data, heap, "release")) = 2
    /\ Len(Rows(data, heap, "file")) = 1
    /\ \A art \in Artifacts : ~ENABLED MakePackage(art)

\* ---------------------------------------------------------------------
\* The order in which the Validator works
\* ---------------------------------------------------------------------

\* The validators of the k-th field of the schema that reject its value in
\* the form, by their place in the field's declaration.
Rejecting(form, k) ==
    LET f == Schema[k]
        v == form[f.name]
    IN  IF v = PyNone THEN {}
        ELSE {j \in 1..Len(f.validators) : Validate(f.validators[j], v.s) # ""}

\* The fields of the schema that are at fault on their own in the form: a
\* required field that is missing, or a field one of whose validators
\* rejects its value.
Faulty(form) ==
    {k \in 1..Len(Schema) :
        \/ form[Schema[k].name] = PyNone /\ ~Schema[k].optional
        \/ Rejecting(form, k) # {}}

Least(ks) == CHOOSE k \in ks : \A j \in ks : k <= j

CrossFieldMessages ==
    {"Python version is required for binary distribution uploads.",
     "Use 'source' as Python version for an sdist.",
     "Include at least one message digest."}

\* C21: the Validator reports the first field at fault in schema order, and
\* of that field the first validator, in declaration order, that rejects its
\* value; a missing required field is at fault, a missing optional field
\* never is; a rule across fields is reported only for a form none of whose
\* fields is at fault.
C21_ValidationOrder ==
    last.op = "form" =>
        LET form == last.given
            ks == Faulty(form)
        IN  IF ks # {}
            THEN LET k == Least(ks)
                     f == Schema[k]
                 IN  /\ last.field = f.name
                     /\ last.error =
                            IF form[f.name] = PyNone THEN "missing required field"
                            ELSE Validate(f.validators[Least(Rejecting(form, k))],
                                          form[f.name].s)
                     /\ ~(form[f.name] = PyNone /\ f.optional)
                     /\ last.error \notin CrossFieldMessages
            ELSE /\ last.field = ""
                 /\ last.error \in CrossFieldMessages \cup {""}

\* A form whose version is rejected by both of its validators, whose summary
\* (a later field) is rejected too, and whose sha256_digest (optional) is
\* missing, was rejected with the message of the first validator of version.
C21_Witness ==
    /\ last.op = "form"
    /\ Faulty(last.given) = {3, 4}
    /\ Rejecting(last.given, 3) = {1, 2}
    /\ last.given.sha256_digest = PyNone
    /\ last.field = "version"
    /\ last.error = "Can't have leading or trailing whitespace."

----------------------------------------------------------------------------
(* Properties of the generator.  In a state whose last operation is a run    *)
(* of the generator, data and heap are the store the run has read.           *)

\* The generator has just run to its end.
Generated == last.op = "generate" /\ last.error = ""

\* The pages at a path (at most one).
PagesAt(tree, project, version) ==
    {e.page : e \in {x \in site : x.tree = tree /\ x.project = project
                                   /\ x.version = version}}

\* The stored Releases of the Project with the id `pid`, and the stored
\* Files of the Release with the id `rid`, as rows.
ReleaseRowsOf(pid) ==
    {r \in {Rows(data, heap, "release")[k] : k \in DOMAIN Rows(data, heap, "release")} :
        r.fields.project_id = PyInt(pid)}

FileRowsOf(rid) ==
    {f \in {Rows(data, heap, "file")[k] : k \in DOMAIN Rows(data, heap, "file")} :
        f.fields.release_id = PyInt(rid)}

ProjectRows == {Rows(data, heap, "project")[k] : k \in DOMAIN Rows(data, heap, "project")}

\* The greatest of a set of version strings in plain lexicographic order.
Greatest(versions) == CHOOSE v \in versions : \A u \in versions : ~Before(v, u)

\* C22: in every generated view that shows a latest release (the roll-up
\* page of the Project, its card on the homepage, its latest JSON document)
\* the latest release is the Release of the Project whose version string is
\* the greatest in plain lexicographic order among all of its Releases.
C22_LatestIsGreatest ==
    Generated =>
        \A p \in ProjectRows :
            ReleaseRowsOf(p.id) # {} =>
                LET greatest == Greatest({r.fields.version.s : r \in ReleaseRowsOf(p.id)})
                IN  /\ \A page \in PagesAt("project", p.fields.name.s, <<>>) :
                          page.version = greatest
                    /\ \A home \in PagesAt("home", <<>>, <<>>) :
                          \A k \in DOMAIN home.packages :
                              home.packages[k].name = p.fields.name.s =>
                                  home.packages[k].version = greatest
                    /\ \A doc \in PagesAt("pypi", p.fields.name.s, <<>>) :
                          doc.info.version = greatest

FileRows == {Rows(data, heap, "file")[k] : k \in DOMAIN Rows(data, heap, "file")}

\* The File is one of a Release of the Project that is not yanked.
InLiveReleaseOf(f, p) ==
    \E r \in ReleaseRowsOf(p.id) : f.fields.release_id = PyInt(r.id) /\ ~r.fields.yanked.b

\* C23: the simple-index page of a Project links a File if and only if the
\* File belongs to a Release of that Project that is not yanked; the Files of
\* yanked Releases and of other Projects are not on it.
C23_SimpleIndexLinks ==
    Generated =>
        \A p \in ProjectRows :
            \A page \in PagesAt("simple", p.fields.name.s, <<>>) :
                \A f \in FileRows :
                    (\E k \in DOMAIN page.list : page.list[k] = f.fields.name.s)
                        <=> InLiveReleaseOf(f, p)

\* The store holds Project a with a yanked Release (File f) and a Release
\* that is not yanked (File g), and Project b with File h; the page of a
\* that was generated links g alone.
C23_Witness ==
    /\ Generated
    /\ \E p \in ProjectRows :
          /\ p.fields.name.s = <<"a">>
          /\ \E r \in ReleaseRowsOf(p.id) :
                r.fields.yanked.b /\ \E f \in FileRowsOf(r.id) : f.fields.name.s = <<"f">>
          /\ \E f \in FileRows : f.fields.name.s = <<"h">> /\ ~InLiveReleaseOf(f, p)
    /\ PagesAt("simple", <<"a">>, <<>>) = {[list |-> << <<"g">> >>]}

\* C24: the JSON API holds one document for every (Project, Release) pair of
\* the store, those of yanked Releases included, and one latest document for
\* every Project; it holds no other document.
C24_JsonDocuments ==
    Generated =>
        /\ \A p \in ProjectRows :
              /\ PagesAt("pypi", p.fields.name.s, <<>>) # {}
              /\ \A r \in ReleaseRowsOf(p.id) :
                    \E doc \in PagesAt("pypi", p.fields.name.s, r.fields.version.s) :
                        doc.info.version = r.fields.version.s
        /\ \A e \in site :
              e.tree = "pypi" =>
                  \E p \in ProjectRows :
                      /\ e.project = p.fields.name.s
                      /\ e.version = <<>>
                            \/ \E r \in ReleaseRowsOf(p.id) : e.version = r.fields.version.s

\* The file names of a list of file dicts, and of the Files of a Release.
NamesIn(list) == {list[k].filename : k \in DOMAIN list}

NamesOf(rid) == {f.fields.name.s : f \in FileRowsOf(rid)}

\* C25: in every generated JSON document `releases` has one key for each
\* version of the Project, yanked ones included, and maps the version of
\* each Release to the list of exactly the Files of that Release; `urls` is
\* the list of the Files of the document's own Release; `vulnerabilities`
\* is empty and `last_serial` is -1.
C25_JsonContents ==
    Generated =>
        \A e \in site :
            e.tree = "pypi" =>
                \A p \in ProjectRows :
                    p.fields.name.s = e.project =>
                        /\ {e.page.releases[k].key : k \in DOMAIN e.page.releases}
                              = {r.fields.version.s : r \in ReleaseRowsOf(p.id)}
                        /\ \A j, k \in DOMAIN e.page.releases :
                              e.page.releases[j].key = e.page.releases[k].key => j = k
                        /\ \A r \in ReleaseRowsOf(p.id) :
                              LET list == ItemGet(e.page.releases, r.fields.version.s)
                              IN  /\ NamesIn(list) = NamesOf(r.id)
                                  /\ Len(list) = Cardinality(FileRowsOf(r.id))
                        /\ \E r \in ReleaseRowsOf(p.id) :
                              /\ r.fields.version.s = e.page.info.version
                              /\ NamesIn(e.page.urls) = NamesOf(r.id)
                              /\ Len(e.page.urls) = Cardinality(FileRowsOf(r.id))
                        /\ e.page.vulnerabilities = <<>>
                        /\ e.page.last_serial = -1

\* The path is one the generator derives from the store: the landing page
\* of the simple index, or a file of a stored Project, either of the Project
\* as a whole or of one of its stored Releases.
OfStore(project, version) ==
    \/ project = <<>> /\ version = <<>>
    \/ \E p \in ProjectRows :
          /\ p.fields.name.s = project
          /\ version = <<>> \/ \E r \in ReleaseRowsOf(p.id) : r.fields.version.s = version

\* C26: a run of the generator deletes the three output trees before it
\* writes, so that after a run (one that an exception has left included) the
\* trees hold only files of Projects and Releases of the current store: no
\* page of a Project or a Release removed since the run before survives.
C26_NoStalePages ==
    last.op = "generate" =>
        \A e \in site :
            e.tree \in {"project", "simple", "pypi"} => OfStore(e.project, e.version)

\* The run has deleted the page and the JSON document of a Release that is
\* no longer in the store, and the trees hold neither of them now.
C26_Witness ==
    /\ Generated
    /\ \E tree \in {"project", "pypi"} :
          \E d \in last.deleted :
              /\ d.tree = tree
              /\ d.version # <<>>
              /\ ~OfStore(d.project, d.version)
              /\ PagesAt(tree, d.project, d.version) = {}
    /\ \E e \in site : e.tree = "project" /\ e.version # <<>>

----------------------------------------------------------------------------
(* Properties of the inspector *)

\* The artifact was inspected and no exception was raised.
Inspected == last.op = "package" /\ last.error = ""

\* The format of the file has a filename pattern, and the pattern matches
\* the name of the file.
TagApplies == last.file_type.s \in DIST_VERSION /\ Pyver(last.file_type.s, last.name) # {}

\* C27: the python-version tag of an inspected artifact is the group pyver
\* of the filename pattern of its format when the pattern matches, and "any"
\* when the format has no pattern that applies; so every inspected artifact
\* has a tag that is not empty.
C27_PythonVersionTag ==
    Inspected =>
        /\ TagApplies => last.python_version \in
                            {PyStr(v) : v \in Pyver(last.file_type.s, last.name)}
        /\ ~TagApplies => last.python_version = AnyTag
        /\ ~Falsy(last.python_version)

\* The positions of a name that show in its safe name: those of the
\* characters of [A-Za-z0-9.], and the first one of every maximal run of
\* other characters.
Shown(x) ==
    {i \in DOMAIN x : ~Unsafe(x[i]) \/ i = 1 \/ ~Unsafe(x[i - 1])}

\* The name with every maximal run of characters outside [A-Za-z0-9.]
\* replaced by one hyphen, the other characters as they are and in order.
Collapsed(x) ==
    [k \in 1..Cardinality(Shown(x)) |->
        LET i == CHOOSE j \in Shown(x) : Cardinality({m \in Shown(x) : m <= j}) = k
        IN  IF Unsafe(x[i]) THEN "-" ELSE x[i]]

FooBarBaz ==
    <<"f", "o", "o", "_", "_", "b", "a", "r", ".", "v", "1", "!", "!", "b", "a", "z">>

\* C28: the safe name of an inspected artifact is the name of its metadata
\* with every maximal run of characters outside [A-Za-z0-9.] replaced by
\* exactly one hyphen and every other character unchanged and in order
\* (foo__bar.v1!!baz becomes foo-bar.v1-baz), and the safe name of a safe
\* name is that safe name.
C28_SafeName ==
    Inspected =>
        /\ last.safe_name.s = Collapsed(last.read.name.s)
        /\ _safe_name(last.safe_name.s) = last.safe_name.s
        /\ last.read.name.s = FooBarBaz =>
              last.safe_name.s = <<"f", "o", "o", "-", "b", "a", "r", ".", "v", "1", "-",
                                   "b", "a", "z">>

\* An inspected artifact whose name has two runs of characters outside
\* [A-Za-z0-9.], each longer than one, and whose safe name has a hyphen for
\* each of them.
C28_Witness ==
    /\ Inspected
    /\ last.read.name.s = FooBarBaz
    /\ Len(last.safe_name.s) = Len(FooBarBaz) - 2
    /\ Cardinality({k \in DOMAIN last.safe_name.s : last.safe_name.s[k] = "-"}) = 2

----------------------------------------------------------------------------
(* Records returned by Database.pop *)

\* The references the tables of a document hold.
Stored(doc) == UNION {{doc[t][k].ref : k \in DOMAIN doc[t]} : t \in DOMAIN doc}

\* C29: the records Database.pop returns are detached from the store and
\* have the unset id -1; assigning to a field of such a record leaves the
\* in-memory snapshot as it is; and Database.put gives such a record the
\* smallest id that is free in the table when it is inserted, whatever id it
\* was stored under before.
C29_PoppedAreDetached ==
    [][/\ last'.op = "pop" =>
              \A k \in DOMAIN insts' :
                  /\ insts'[k].id = -1
                  /\ insts'[k].ref \notin Stored(data')
       /\ \A k \in DOMAIN insts : \A value \in {PyStr(n) : n \in DbNames} :
              (last'.op = "setattr" /\ insts[k].via = "pop" /\ insts[k].id < 0
                    /\ SetAttr(k, "name", value)) =>
                  /\ Snapshot(data', heap') = Snapshot(data, heap)
                  /\ heap'[insts[k].ref].name = value
       /\ last'.op = "put" =>
              \A table \in DbTables : \A entries \in PutArgs(table) :
                  DbPut(table, entries) =>
                      \A p \in DOMAIN entries :
                          LET k    == entries[p]
                              n    == insts'[k].id
                              keys == KeysAtInsert(TableOf(Rollback, table), insts',
                                                   entries, p)
                          IN  (insts[k].via = "pop" /\ insts[k].id < 0) =>
                                  /\ n >= 0
                                  /\ Decimal(n) \notin keys
                                  /\ \A m \in 0..(n - 1) : Decimal(m) \in keys
      ]_vars

\* Two records were popped in one call and the second of them was put back
\* alone: it is stored under id 0, the first one is still detached.
C29_Witness ==
    /\ last.op = "put"
    /\ Len(insts) = 2
    /\ insts[1].via = "pop" /\ insts[1].id = -1 /\ insts[1].ref \notin Stored(data)
    /\ insts[2].via = "pop" /\ insts[2].id = 0
    /\ LET tbl == data[insts[2].table]
       IN  /\ Len(tbl) = 1
           /\ tbl[1].key = <<"0">>
           /\ tbl[1].ref = insts[2].ref

----------------------------------------------------------------------------
(* Ingestion and the backing file *)

\* C30: a run of handle_arguments never persists the store: every
\* make_package call, whether it returns the package or raises, leaves the
\* backing file and the last_commit in it as they were, and the last_commit
\* of the loaded document is still the one of the file; only the in-memory
\* document moves on.
C30_IngestionNeverCommits ==
    [][(last'.op = "make_package" /\ calls' = calls + 1) =>
           /\ db_file' = db_file
           /\ db_file'.last_commit = FullFile.last_commit
           /\ stamp' = db_file.last_commit
      ]_vars

\* A run in which a call stored records and a later call raised: the
\* document in memory differs from the tables of the file, which is the one
\* the run found.
C30_Witness ==
    /\ raised
    /\ calls >= 2
    /\ last.op = "make_package"
    /\ last.error # ""
    /\ Snapshot(data, heap) # db_file.tables
    /\ db_file = FullFile
====
